---- MODULE Spec2Model ----
(***************************************************************************)
(* Chain controller of the node (database.cpp): block push, fork switch,  *)
(* pop, pending transactions, undo sessions, irreversibility and the      *)
(* block log.                                                              *)
(*                                                                         *)
(* Time is counted in block intervals since genesis, so a block timestamp  *)
(* is also its absolute slot.  Block ids are 1..Len(blocks); 0 is the      *)
(* null id block_id_type().                                                *)
(***************************************************************************)
EXTENDS Integers, Sequences, FiniteSets, TLC

\* ---- bounds of the model ------------------------------------------------
MaxBlocks == 3          \* blocks ever produced by the network
MaxTrx == 2             \* distinct transactions
MaxSlot == 1            \* largest slot a produced block may skip to
MaxTime == 3            \* latest block timestamp
MaxBadBlocks == 1       \* produced blocks whose evaluation throws
MaxChain == 5           \* blocks ever produced in the single-producer runs (SpecChain)
MaxChainSlot == 2       \* largest slot a block of those runs may skip to
MaxScheduled == 4       \* witnesses of the larger of the two schedules
MaxHeaderWitness == 1   \* largest witness a block with an arbitrary header (SpecHeader) names
MaxDedupeBlocks == 4    \* blocks ever produced in the runs with the stale transaction (SpecDedupe)
SummarySize == 4        \* entries of the block-summary ring (0x10000 in the program)
PrefixSize == 4         \* values of the 32-bit id prefix a transaction refers to
MaxRef == 1             \* largest ref_block_num of the transactions that refer to a block
MaxHardfork == 7        \* largest hardfork set_hardfork is called with
MaxProduced == 4        \* blocks the node ever produces (SpecProduce)
MaxSbd == 2             \* largest SBD amount of a balance or an escrow at the start (SpecSupply)
MaxPriceBase == 3       \* largest SBD amount of the median price
MaxPriceQuote == 2      \* largest STEEM amount of the median price
SupplyStart == 8        \* head block time at the start of the supply runs
MaxSupplyBlocks == 2    \* blocks applied in a supply run
MaxComments == 3        \* comments of the store (SpecCashout)
MaxRshares == 2         \* largest rshares of one vote
MaxVotes == 2           \* votes cast in a cashout run
MaxCashouts == 2        \* blocks with a comment cashout in a cashout run
Rshares2Bits == 6       \* width of the rshares2 counters (128 in the program)
MaxRewardFund == 9      \* STEEM of the reward pool at the start
MaxVestingBlocks == 2   \* blocks with vesting withdrawals in a vesting run (SpecVesting)
MaxWitnessPays == 1     \* witness payments in a vesting run
MaxWitnessReward == 2   \* largest STEEM amount of a witness payment
MaxDebt == 4            \* largest debt of a call order at the start (SpecMarket)
MaxCollateral == 6      \* largest collateral of a call order at the start
MaxMarketFee == 5       \* largest max_market_fee of an asset
MaxSettlePrice == 2     \* largest amount of a settlement or match price
MaxMarketOps == 3       \* operations in a market run
MaxLogged == 5          \* blocks ever produced in the runs with a reindex (SpecReindex)
MaxFundBlocks == 2      \* blocks whose funds are processed in a funds run (SpecFunds)
MaxPayoutBlocks == 3    \* blocks applied in a payout run (SpecPayout)
MaxPayoutVotes == 1     \* votes cast between the blocks of a payout run
MaxBookOrders == 3      \* limit orders ever created in a run of the order book (SpecBook)
MaxBookAmount == 3      \* largest amount an order sells and largest amount of its price
MaxCallDebt == 3        \* largest debt and largest collateral of a call order a margin call meets (SpecCalls)
MaxFeedUpdates == 2     \* feed updates in a run of margin calls
MaxBandwidthTrx == 2    \* transactions whose bandwidth is accounted in a run (SpecBandwidth)
MaxTrxSize == 2         \* largest size of such a transaction
MaxStake == 2           \* largest vesting_shares of the account that signs them
\* the greatest amount of a balance adjustment, the operations and the block
\* time of the balance model
MaxBalanceDelta == 2
MaxBalanceOps == 3
MaxBalanceTime == 3
TimeBits == 5           \* width of a time in seconds and of a slot number (32 in the program)
MaxPending == 2         \* length of the pending list at which push_transaction is no longer called

\* ---- program constants (config.hpp is not part of the tree; the ---------
\* ---- block-count constants are scaled down to the model's chain length) -
STEEMIT_100_PERCENT == 10000
STEEMIT_IRREVERSIBLE_THRESHOLD == 7500
STEEMIT_START_MINER_VOTING_BLOCK == 4
STEEMIT_MAX_WITNESSES == 2
STEEMIT_MAX_UNDO_HISTORY == 10000
STEEMIT_MAX_TIME_UNTIL_EXPIRATION == 1200
STEEMIT_HARDFORK_0_9 == 9
STEEMIT_HARDFORK_0_5__54 == 5
\* a year and the interest interval in block intervals, scaled to the model
STEEMIT_SECONDS_PER_YEAR == 4
STEEMIT_SBD_INTEREST_COMPOUND_INTERVAL_SEC == 1
\* STEEMIT_HARDFORK_0_17__86, __89 and __91 are the same hardfork
STEEMIT_HARDFORK_0_17 == 17
\* scaled to the model's rshares and time
STEEMIT_CONTENT_CONSTANT == 1
STEEMIT_RECENT_RSHARES_DECAY_RATE == 4
\* a week in block intervals, scaled to the model
STEEMIT_VESTING_WITHDRAW_INTERVAL_SECONDS == 1
\* fc::time_point_sec::maximum(), later than every block of the model
time_point_sec_maximum == 1000
STEEMIT_NUM_HARDFORKS == 17
\* STEEMIT_HARDFORK_0_1_TIME in block intervals since genesis: the configured
\* hardfork times lie far after the blocks of the model
STEEMIT_HARDFORK_0_1_TIME == 1000
\* seconds between two slots
STEEMIT_BLOCK_INTERVAL == 3
STEEMIT_HARDFORK_0_16 == 16
STEEMIT_HARDFORK_0_12 == 12
STEEMIT_SECOND_CASHOUT_WINDOW == 1
STEEMIT_FIRST_CASHOUT_TIME == 1
time_point_sec_min == 0
STEEMIT_START_VESTING_BLOCK == 2
STEEMIT_BLOCKS_PER_YEAR == 1
STEEMIT_INFLATION_RATE_START_PERCENT == 978
STEEMIT_INFLATION_RATE_STOP_PERCENT == 95
STEEMIT_INFLATION_NARROWING_PERIOD == 2
STEEMIT_CONTENT_REWARD_PERCENT == 7500
STEEMIT_VESTING_FUND_PERCENT == 1500
STEEMIT_POST_REWARD_FUND_PERCENT == 7500
STEEMIT_COMMENT_REWARD_FUND_PERCENT == 2500
STEEMIT_CONTENT_APR_PERCENT == 3875
STEEMIT_CURATE_APR_PERCENT == 1937
STEEMIT_PRODUCER_APR_PERCENT == 750
STEEMIT_MIN_CONTENT_REWARD == 1500
STEEMIT_MIN_CURATE_REWARD == 1000
STEEMIT_MIN_PRODUCER_REWARD == 1000
STEEMIT_MIN_PRODUCER_REWARD_PRE_HF16 == 1000
\* the packed size of an empty block, in units of the smallest transaction
max_block_header_size == 1
\* dynamic_global_property_object::maximum_block_size, in the same units
maximum_block_size == 4

NullId == 0
TrxIds == 1..MaxTrx
SchedSizes == {1, MaxScheduled}
Witnesses == 0..(MaxScheduled - 1)

\* steps of _apply_block at which a block's evaluation can throw
FailSteps == {"operation", "housekeeping", "hardfork"}

\* a transaction signed with an expiration that lies before the genesis time
StaleTrx == MaxTrx + 1

\* expiration of transaction t: transaction 1 expires early, the others late,
\* StaleTrx one block interval before genesis
TrxExpiration(t) == IF t = 1 THEN 2 ELSE IF t = StaleTrx THEN -1 ELSE MaxTime + 2

VARIABLES
    blocks,              \* every signed_block the network has produced
    db,                  \* the object store (chainbase), the undoable state
    undo_stack,          \* chainbase undo sessions, oldest first
    revision,            \* chainbase revision
    block_log,           \* _block_log: ids of the appended blocks
    fork_index,          \* _fork_db._index
    fork_head,           \* _fork_db._head
    fork_max_size,       \* _fork_db._max_size
    pending_tx,          \* _pending_tx
    pending_tx_session,  \* _pending_tx_session.valid()
    popped_tx,           \* _popped_tx
    producing,           \* _is_producing
    hardfork_times,      \* _hardfork_times
    econ,                \* the balances, supplies, comments and votes of the object store
    pre_apply,           \* history: store state before each block's last application
    last                 \* history: the last call and its outcome

vars == <<blocks, db, undo_stack, revision, block_log, fork_index, fork_head,
          fork_max_size, pending_tx, pending_tx_session, popped_tx,
          producing, hardfork_times, econ, pre_apply, last>>

\* the controller state as one value, so that the handlers can be composed
Chain == [db |-> db, undo_stack |-> undo_stack, revision |-> revision,
          block_log |-> block_log, fork_index |-> fork_index,
          fork_head |-> fork_head, fork_max_size |-> fork_max_size,
          pending_tx |-> pending_tx, pending_tx_session |-> pending_tx_session,
          popped_tx |-> popped_tx, producing |-> producing,
          pre_apply |-> pre_apply, held |-> {},
          hardfork_times |-> hardfork_times]

Range(s) == {s[i] : i \in 1..Len(s)}

Max(a, b) == IF a > b THEN a ELSE b

Min(a, b) == IF a < b THEN a ELSE b

\* ---- object store: undo sessions (chainbase) ------------------------------

\* start_undo_session(true): a new session on top, revision + 1
start_undo_session(c) ==
    [c EXCEPT !.undo_stack = Append(@, [revision |-> c.revision + 1, old |-> c.db]),
              !.revision = @ + 1]

\* undo(): restore the state saved by the top session; nothing when there is none
undo(c) ==
    IF c.undo_stack = <<>> THEN c
    ELSE [c EXCEPT !.db = c.undo_stack[Len(c.undo_stack)].old,
                   !.undo_stack = SubSeq(@, 1, Len(@) - 1),
                   !.revision = @ - 1]

\* session.squash(): merge the top session into the one below it
squash(c) ==
    IF c.undo_stack = <<>> THEN c
    ELSE [c EXCEPT !.undo_stack = SubSeq(@, 1, Len(@) - 1),
                   !.revision = @ - 1]

RECURSIVE DropCommitted(_, _)
DropCommitted(stack, rev) ==
    IF stack # <<>> /\ stack[1].revision <= rev
    THEN DropCommitted(Tail(stack), rev)
    ELSE stack

\* commit(revision): discard the undo data of every session up to revision
commit(c, rev) == [c EXCEPT !.undo_stack = DropCommitted(@, rev)]

\* the store as it is at the head block, without the pending transactions
HeadState(c) ==
    IF c.pending_tx_session /\ c.undo_stack # <<>>
    THEN c.undo_stack[Len(c.undo_stack)].old
    ELSE c.db

\* ---- TaPoS -------------------------------------------------------------------

\* the transaction that refers to summary entry ref with id prefix prefix
TaposTrx(ref, prefix) == StaleTrx + 1 + ref * PrefixSize + prefix

TaposTrxIds == {TaposTrx(r, x) : r \in 0..MaxRef, x \in 0..(PrefixSize - 1)}

\* a transaction whose checks pass and whose operation throws in its evaluator;
\* it was signed against the summary entry 0 as genesis leaves it
BadTrx == TaposTrx(MaxRef, PrefixSize - 1) + 1

\* trx.ref_block_num; the transactions up to StaleTrx were signed against the
\* summary entry 0 as genesis leaves it
TrxRefBlockNum(t) ==
    IF t <= StaleTrx \/ t = BadTrx THEN 0 ELSE (t - StaleTrx - 1) \div PrefixSize

\* trx.ref_block_prefix
TrxRefBlockPrefix(t) ==
    IF t <= StaleTrx \/ t = BadTrx THEN 0 ELSE (t - StaleTrx - 1) % PrefixSize

\* block_id._hash[1]: the prefix of the null id is 0, two ids can share a prefix
IdPrefix(id) == id % PrefixSize

\* the TaPoS check of _apply_transaction
tapos_ok(d, trx) ==
    d.head_block_number > 0
        => TrxRefBlockPrefix(trx) = IdPrefix(d.block_summary[TrxRefBlockNum(trx)])

\* ---- hardfork level ------------------------------------------------------

\* has_hardfork: processed_hardforks.size() > hardfork
has_hardfork(d, hardfork) == Len(d.processed_hardforks) > hardfork

\* _hardfork_versions[i]: the version of hardfork i is 0.i
hardfork_version(i) == i

\* init_hardforks: _hardfork_times[0] is the genesis time
init_hardforks ==
    [i \in 0..STEEMIT_NUM_HARDFORKS |->
        IF i = 0 THEN 0 ELSE STEEMIT_HARDFORK_0_1_TIME + (i - 1)]

\* a hardfork applied whatever the last one was
ApplyHardforkUnordered(d, times, hardfork) ==
    [ok |-> hardfork \in 1..STEEMIT_NUM_HARDFORKS,
     db |-> [d EXCEPT !.processed_hardforks =
                          IF hardfork \in DOMAIN times
                          THEN Append(@, times[hardfork]) ELSE @,
                      !.last_hardfork = hardfork]]

\* apply_hardfork: the assertions and the record of the hardfork; the state
\* changes of the individual hardforks are left out.  Result: [ok, db].
apply_hardfork(d, times, hardfork) ==
    IF /\ hardfork = d.last_hardfork + 1
       /\ Len(d.processed_hardforks) = hardfork
       /\ hardfork \in DOMAIN times
    THEN [ok |-> TRUE,
          db |-> [d EXCEPT !.processed_hardforks = Append(@, times[hardfork]),
                           !.last_hardfork = hardfork]]
    ELSE [ok |-> FALSE, db |-> d]

RECURSIVE VotedKnownHardforks(_, _)
\* a loop on the voted hardfork that stops at the last hardfork it knows
VotedKnownHardforks(d, times) ==
    IF ~(/\ hardfork_version(d.last_hardfork) < d.next_hardfork
         /\ d.next_hardfork_time <= d.time
         /\ d.last_hardfork < STEEMIT_NUM_HARDFORKS)
    THEN [ok |-> TRUE, db |-> d]
    ELSE LET r == apply_hardfork(d, times, d.last_hardfork + 1)
         IN  IF r.ok THEN VotedKnownHardforks(r.db, times) ELSE r

RECURSIVE VotedHardforks(_, _)
\* process_hardforks, the loop taken once hardfork 0.5 is there: hardforks
\* the witnesses voted for
VotedHardforks(d, times) ==
    IF ~(hardfork_version(d.last_hardfork) < d.next_hardfork
         /\ d.next_hardfork_time <= d.time)
    THEN [ok |-> TRUE, db |-> d]
    ELSE IF ~(d.last_hardfork < STEEMIT_NUM_HARDFORKS)
    THEN [ok |-> FALSE, db |-> d]
    ELSE LET r == apply_hardfork(d, times, d.last_hardfork + 1)
         IN  IF r.ok THEN VotedHardforks(r.db, times) ELSE r

RECURSIVE TimedHardforks(_, _)
\* process_hardforks, the loop taken before hardfork 0.5: hardforks by time
TimedHardforks(d, times) ==
    IF ~(/\ d.last_hardfork < STEEMIT_NUM_HARDFORKS
         /\ times[d.last_hardfork + 1] <= d.time
         /\ d.last_hardfork < STEEMIT_HARDFORK_0_5__54)
    THEN [ok |-> TRUE, db |-> d]
    ELSE LET r == apply_hardfork(d, times, d.last_hardfork + 1)
         IN  IF r.ok THEN TimedHardforks(r.db, times) ELSE r

\* process_hardforks.  Result: [ok, db].
process_hardforks(d, times) ==
    IF has_hardfork(d, STEEMIT_HARDFORK_0_5__54)
    THEN VotedHardforks(d, times)
    ELSE TimedHardforks(d, times)

RECURSIVE SetHardforks(_, _, _, _)
\* the loop of set_hardfork from hardfork i on.  Result: [ok, c].
SetHardforks(c, i, hardfork, apply_now) ==
    IF ~(i <= hardfork /\ i <= STEEMIT_NUM_HARDFORKS) THEN [ok |-> TRUE, c |-> c]
    ELSE LET c1 == IF i <= STEEMIT_HARDFORK_0_5__54
                   THEN [c EXCEPT !.hardfork_times[i] = c.db.time]
                   ELSE [c EXCEPT !.db.next_hardfork = hardfork_version(i),
                                  !.db.next_hardfork_time = c.db.time]
             r == apply_hardfork(c1.db, c1.hardfork_times, i)
         IN  IF ~apply_now THEN SetHardforks(c1, i + 1, hardfork, apply_now)
             ELSE IF r.ok
             THEN SetHardforks([c1 EXCEPT !.db = r.db], i + 1, hardfork, apply_now)
             ELSE [ok |-> FALSE, c |-> c1]

\* set_hardfork.  Result: [ok, c].
set_hardfork(c, hardfork, apply_now) ==
    SetHardforks(c, c.db.last_hardfork + 1, hardfork, apply_now)

\* ---- transactions -----------------------------------------------------------

\* _apply_transaction: duplicate check, TaPoS check, expiration checks, dedupe
\* record.
\* is_producing is is_producing().  Result: [ok, db].
\* a controller that applies a transaction without recording its id
ApplyTransactionUnrecorded(d, trx, is_producing) ==
    LET now == d.time
        exp == TrxExpiration(trx)
        expired ==
            /\ d.head_block_number > 0
            /\ \/ exp > now + STEEMIT_MAX_TIME_UNTIL_EXPIRATION
               \/ (is_producing \/ has_hardfork(d, STEEMIT_HARDFORK_0_9)) /\ ~(now < exp)
               \/ ~(now <= exp)
    IN  [ok |-> ~(trx \in d.trx_index \/ ~tapos_ok(d, trx) \/ expired), db |-> d]

_apply_transaction(d, trx, is_producing) ==
    LET now == d.time
        exp == TrxExpiration(trx)
        dupe == trx \in d.trx_index
        expired ==
            /\ d.head_block_number > 0
            /\ \/ exp > now + STEEMIT_MAX_TIME_UNTIL_EXPIRATION
               \/ (is_producing \/ has_hardfork(d, STEEMIT_HARDFORK_0_9)) /\ ~(now < exp)
               \/ ~(now <= exp)
    IN  IF dupe \/ ~tapos_ok(d, trx) \/ expired
        THEN [ok |-> FALSE, db |-> d]
        ELSE [ok |-> trx # BadTrx, db |-> [d EXCEPT !.trx_index = @ \cup {trx}]]

RECURSIVE ApplyTransactions(_, _)
\* the transaction loop of _apply_block: the first failure fails the block
ApplyTransactions(d, trxs) ==
    IF trxs = <<>> THEN [ok |-> TRUE, db |-> d]
    ELSE LET r == _apply_transaction(d, Head(trxs), FALSE)
         IN  IF r.ok THEN ApplyTransactions(r.db, Tail(trxs)) ELSE r

\* a clean-up that also forgets the records that expire at the head block time
ClearExpiringTransactions(d) ==
    [d EXCEPT !.trx_index = {t \in @ : ~(d.time >= TrxExpiration(t))}]

\* clear_expired_transactions: forget the records whose expiration has passed
clear_expired_transactions(d) ==
    [d EXCEPT !.trx_index = {t \in @ : ~(d.time > TrxExpiration(t))}]

\* is_known_transaction
is_known_transaction(d, trx) == trx \in d.trx_index

\* a _push_transaction that merges the temporary session of a transaction
\* that threw
PushTransactionKeepingFailed(c, trx, is_producing) ==
    LET c1 == IF c.pending_tx_session THEN c
              ELSE [start_undo_session(c) EXCEPT !.pending_tx_session = TRUE]
        c2 == start_undo_session(c1)
        r  == _apply_transaction(c2.db, trx, is_producing)
    IN  IF r.ok
        THEN [ok |-> TRUE,
              c |-> squash([c2 EXCEPT !.db = r.db, !.pending_tx = Append(@, trx)])]
        ELSE [ok |-> FALSE, c |-> squash([c2 EXCEPT !.db = r.db])]

\* _push_transaction: apply trx on top of the pending session; a throw undoes
\* the temporary session.  Result: [ok, c].
_push_transaction(c, trx, is_producing) ==
    LET c1 == IF c.pending_tx_session THEN c
              ELSE [start_undo_session(c) EXCEPT !.pending_tx_session = TRUE]
        c2 == start_undo_session(c1)
        r  == _apply_transaction(c2.db, trx, is_producing)
    IN  IF r.ok
        THEN [ok |-> TRUE,
              c |-> squash([c2 EXCEPT !.db = r.db, !.pending_tx = Append(@, trx)])]
        ELSE [ok |-> FALSE, c |-> undo([c2 EXCEPT !.db = r.db])]

\* clear_pending: drop the pending transactions and their session
clear_pending(c) ==
    LET c1 == [c EXCEPT !.pending_tx = <<>>]
    IN  IF c.pending_tx_session
        THEN [undo(c1) EXCEPT !.pending_tx_session = FALSE]
        ELSE c1

RECURSIVE RestoreTransactions(_, _)
\* pending_transactions_restorer: re-push each transaction that is not known,
\* ignoring the ones that fail
RestoreTransactions(c, trxs) ==
    IF trxs = <<>> THEN c
    ELSE LET t == Head(trxs)
             c1 == IF is_known_transaction(c.db, t) THEN c
                   ELSE _push_transaction(c, t, FALSE).c
         IN  RestoreTransactions(c1, Tail(trxs))

\* ~pending_transactions_restorer: the popped transactions first, then the
\* transactions that were pending before the call
restore_pending(c, saved) ==
    LET c1 == RestoreTransactions(c, c.popped_tx)
        c2 == [c1 EXCEPT !.popped_tx = <<>>]
    IN  RestoreTransactions(c2, saved)

\* ---- fork database ----------------------------------------------------------

\* item->prev.lock(): the parent item while something still holds it
ForkPrev(bs, c, id) ==
    LET p == bs[id].previous
    IN  IF p # NullId /\ (p \in c.fork_index \/ p = c.fork_head \/ p \in c.held)
        THEN p ELSE NullId

\* the pruning of _push_block and set_max_size: drop the items below min_num
ForkPrune(bs, index, min_num) == {i \in index : bs[i].num >= min_num}

\* fork_database::push_block.  Result: [ok, c]; c.fork_head is the head returned.
fork_push_block(bs, c, id) ==
    LET b == bs[id]
        too_old == c.fork_head # NullId
                   /\ ~(b.num > Max(0, bs[c.fork_head].num - c.fork_max_size))
        unlinkable == c.fork_head # NullId /\ b.previous # NullId
                      /\ b.previous \notin c.fork_index
        index1 == c.fork_index \cup {id}
    IN  IF too_old \/ unlinkable THEN [ok |-> FALSE, c |-> c]
        ELSE IF c.fork_head = NullId
        THEN [ok |-> TRUE, c |-> [c EXCEPT !.fork_index = index1, !.fork_head = id]]
        ELSE IF b.num > bs[c.fork_head].num
        THEN [ok |-> TRUE,
              c |-> [c EXCEPT !.fork_head = id,
                              !.fork_index = ForkPrune(bs, index1,
                                               b.num - Min(c.fork_max_size, b.num))]]
        ELSE [ok |-> TRUE, c |-> [c EXCEPT !.fork_index = index1]]

\* fork_database::pop_block: the head moves to its parent.  Result: [ok, c].
fork_pop_block(bs, c) ==
    IF c.fork_head = NullId \/ ForkPrev(bs, c, c.fork_head) = NullId
    THEN [ok |-> FALSE, c |-> c]
    ELSE [ok |-> TRUE, c |-> [c EXCEPT !.fork_head = ForkPrev(bs, c, c.fork_head)]]

\* fork_database::remove
fork_remove(c, id) == [c EXCEPT !.fork_index = @ \ {id}]

\* fork_database::set_head
fork_set_head(c, id) == [c EXCEPT !.fork_head = id]

\* fork_database::set_max_size
fork_set_max_size(bs, c, s) ==
    IF c.fork_head = NullId THEN [c EXCEPT !.fork_max_size = s]
    ELSE [c EXCEPT !.fork_max_size = s,
                   !.fork_index = ForkPrune(bs, @, Max(0, bs[c.fork_head].num - s))]

RECURSIVE WalkMainBranch(_, _, _, _)
\* walk_main_branch_to_num
WalkMainBranch(bs, c, id, num) ==
    IF id = NullId THEN NullId
    ELSE IF bs[id].num > num THEN WalkMainBranch(bs, c, ForkPrev(bs, c, id), num)
    ELSE id

\* fork_database::fetch_block_on_main_branch_by_number; NullId when there is none
fetch_block_on_main_branch_by_number(bs, c, num) ==
    LET at == {i \in c.fork_index : bs[i].num = num}
    IN  IF Cardinality(at) = 1 THEN CHOOSE i \in at : TRUE
        ELSE IF at = {} THEN NullId
        ELSE IF c.fork_head = NullId \/ num > bs[c.fork_head].num THEN NullId
        ELSE WalkMainBranch(bs, c, c.fork_head, num)

RECURSIVE FetchBranch(_, _, _, _, _, _)
\* the walk of fetch_branch_from: both branches, tip first, down to the
\* children of the common ancestor
FetchBranch(bs, c, f, s, accF, accS) ==
    IF f = NullId \/ s = NullId THEN [ok |-> FALSE, first |-> accF, second |-> accS]
    ELSE IF bs[f].num > bs[s].num
    THEN FetchBranch(bs, c, ForkPrev(bs, c, f), s, Append(accF, f), accS)
    ELSE IF bs[s].num > bs[f].num
    THEN FetchBranch(bs, c, f, ForkPrev(bs, c, s), accF, Append(accS, s))
    ELSE IF bs[f].previous # bs[s].previous
    THEN FetchBranch(bs, c, ForkPrev(bs, c, f), ForkPrev(bs, c, s),
                     Append(accF, f), Append(accS, s))
    ELSE [ok |-> TRUE, first |-> Append(accF, f), second |-> Append(accS, s)]

\* fork_database::fetch_branch_from(first, second)
fetch_branch_from(bs, c, first, second) ==
    IF first \notin c.fork_index \/ second \notin c.fork_index
    THEN [ok |-> FALSE, first |-> <<>>, second |-> <<>>]
    ELSE FetchBranch(bs, c, first, second, <<>>, <<>>)

\* database::fetch_block_by_id: the fork database first, then the block log
fetch_block_by_id(bs, c, id) ==
    IF id \in c.fork_index THEN id
    ELSE IF id # NullId /\ bs[id].num <= Len(c.block_log) /\ c.block_log[bs[id].num] = id
    THEN id
    ELSE NullId

\* ---- block application --------------------------------------------------------

\* get_slot_at_time, in block intervals: slot 1 is one interval after the head
get_slot_at_time(d, when) == IF when < d.time + 1 THEN 0 ELSE (when - (d.time + 1)) + 1

\* get_scheduled_witness: the shuffled schedule lists witness i at position i
get_scheduled_witness(d, slot_num) ==
    (d.current_aslot + slot_num) % d.num_scheduled_witnesses

\* a header check that takes the block of any witness
ValidateHeaderAnyWitness(d, b) ==
    /\ d.head_block_id = b.previous
    /\ d.time < b.timestamp
    /\ get_slot_at_time(d, b.timestamp) > 0

\* validate_block_header: previous id, timestamp, scheduled witness
validate_block_header(d, b) ==
    /\ d.head_block_id = b.previous
    /\ d.time < b.timestamp
    /\ get_slot_at_time(d, b.timestamp) > 0
    /\ b.witness = get_scheduled_witness(d, get_slot_at_time(d, b.timestamp))

\* update_global_dynamic_data: the head moves to block id
update_global_dynamic_data(d, b, id) ==
    LET missed_blocks == get_slot_at_time(d, b.timestamp) - 1
    IN  [d EXCEPT !.head_block_number = b.num,
                  !.head_block_id = id,
                  !.time = b.timestamp,
                  !.current_aslot = @ + missed_blocks + 1]

\* the undo-history assertion that ends update_global_dynamic_data
undo_history_ok(d) ==
    d.head_block_number - d.last_irreversible_block_num < STEEMIT_MAX_UNDO_HISTORY

\* update_signing_witness
update_signing_witness(d, b) ==
    [d EXCEPT !.last_confirmed_block_num[b.witness] = b.num]

\* the element std::nth_element leaves at position offset: offset values are
\* smaller or equal and it is the smallest such
NthConfirmed(d, offset) ==
    LET W == 0..(d.num_scheduled_witnesses - 1)
        lcb == d.last_confirmed_block_num
    IN  CHOOSE v \in {lcb[w] : w \in W} :
            /\ Cardinality({w \in W : lcb[w] < v}) <= offset
            /\ Cardinality({w \in W : lcb[w] <= v}) > offset

\* the offset into the sorted confirmations
\* an offset computed from the threshold instead of its complement
OffsetOfThreshold(n) ==
    (STEEMIT_IRREVERSIBLE_THRESHOLD * n) \div STEEMIT_100_PERCENT

IrreversibleOffset(n) ==
    ((STEEMIT_100_PERCENT - STEEMIT_IRREVERSIBLE_THRESHOLD) * n) \div STEEMIT_100_PERCENT

\* an update that takes the candidate even when it is lower
LastIrreversibleUnguarded(d) ==
    IF d.head_block_number < STEEMIT_START_MINER_VOTING_BLOCK
    THEN IF d.head_block_number > STEEMIT_MAX_WITNESSES
         THEN d.head_block_number - STEEMIT_MAX_WITNESSES
         ELSE d.last_irreversible_block_num
    ELSE NthConfirmed(d, IrreversibleOffset(d.num_scheduled_witnesses))

\* update_last_irreversible_block, the new last_irreversible_block_num
NewLastIrreversible(d) ==
    IF d.head_block_number < STEEMIT_START_MINER_VOTING_BLOCK
    THEN IF d.head_block_number > STEEMIT_MAX_WITNESSES
         THEN d.head_block_number - STEEMIT_MAX_WITNESSES
         ELSE d.last_irreversible_block_num
    ELSE LET new_lib == NthConfirmed(d, IrreversibleOffset(d.num_scheduled_witnesses))
         IN  IF new_lib > d.last_irreversible_block_num
             THEN new_lib ELSE d.last_irreversible_block_num

RECURSIVE AppendIrreversible(_, _)
\* the block-log loop of update_last_irreversible_block.  Result: [ok, c].
AppendIrreversible(bs, c) ==
    LET log_head_num == Len(c.block_log)
    IN  IF ~(log_head_num < c.db.last_irreversible_block_num)
        THEN [ok |-> TRUE, c |-> c]
        ELSE LET block == fetch_block_on_main_branch_by_number(bs, c, log_head_num + 1)
             IN  IF block = NullId THEN [ok |-> FALSE, c |-> c]
                 ELSE AppendIrreversible(bs,
                          [c EXCEPT !.block_log = Append(@, block)])

\* the end of update_last_irreversible_block: _fork_db.set_max_size
SetForkSize(bs, r) ==
    IF ~r.ok THEN r
    ELSE [ok |-> TRUE,
          c |-> fork_set_max_size(bs, r.c,
                    r.c.db.head_block_number
                    - r.c.db.last_irreversible_block_num + 1)]

\* update_last_irreversible_block: new value, commit, block log, fork db size
update_last_irreversible_block(bs, c) ==
    LET lib == NewLastIrreversible(c.db)
    IN  SetForkSize(bs, AppendIrreversible(bs,
            commit([c EXCEPT !.db.last_irreversible_block_num = lib], lib)))

\* _apply_block from clear_expired_transactions on: the housekeeping loop and
\* process_hardforks, where the block can still throw
\* update_witness_schedule: the schedule the block's round ends with (the
\* witness objects keep their last_confirmed_block_num when unscheduled)
update_witness_schedule(d, b) == [d EXCEPT !.num_scheduled_witnesses = b.sched]

\* a summary written into the entry of the next block number
CreateBlockSummaryNext(d, b, id) ==
    [d EXCEPT !.block_summary[(b.num + 1) % SummarySize] = id]

\* create_block_summary: the block's id goes into entry block_num & 0xffff
create_block_summary(d, b, id) ==
    [d EXCEPT !.block_summary[b.num % SummarySize] = id]

\* the end of _apply_block: process_hardforks
ProcessHardforks(b, c) ==
    LET r == process_hardforks(c.db, c.hardfork_times)
    IN  [ok |-> b.fail \notin {"housekeeping", "hardfork"} /\ r.ok,
         c |-> [c EXCEPT !.db = r.db]]

EndOfBlock(b, id, l) ==
    IF ~l.ok THEN l
    ELSE ProcessHardforks(b,
             [l.c EXCEPT !.db = update_witness_schedule(
                                    clear_expired_transactions(
                                        create_block_summary(@, b, id)), b)])

\* _apply_block from update_global_dynamic_data to update_last_irreversible_block
UpdateHead(bs, c, id, d) ==
    IF ~undo_history_ok(d) THEN [ok |-> FALSE, c |-> [c EXCEPT !.db = d]]
    ELSE EndOfBlock(bs[id], id,
             update_last_irreversible_block(bs,
                 [c EXCEPT !.db = update_signing_witness(d, bs[id])]))

\* _apply_block after the transaction loop
AfterTransactions(bs, c, id, t) ==
    IF ~t.ok \/ bs[id].fail = "operation"
    THEN [ok |-> FALSE, c |-> [c EXCEPT !.db = t.db]]
    ELSE UpdateHead(bs, c, id, update_global_dynamic_data(t.db, bs[id], id))

\* _apply_block.  Result: [ok, c]; when it throws, c is the state at the throw.
_apply_block(bs, c, id) ==
    IF ~validate_block_header(c.db, bs[id]) THEN [ok |-> FALSE, c |-> c]
    ELSE AfterTransactions(bs, c, id, ApplyTransactions(c.db, bs[id].transactions))

\* the end of the session around apply_block: push() keeps it, a throw undoes
\* the session on top
EndSession(id, before, r) ==
    IF r.ok
    THEN [ok |-> TRUE, c |-> [r.c EXCEPT !.pre_apply[id] = before]]
    ELSE [ok |-> FALSE, c |-> undo(r.c)]

\* { auto session = start_undo_session(true); apply_block(b); session.push(); }
\* Result: [ok, c].
apply_block_in_session(bs, c, id) ==
    EndSession(id, c.db, _apply_block(bs, start_undo_session(c), id))

\* ---- pop_block ------------------------------------------------------------------

\* a pop that leaves the store as it is
PopHeadKeepState(bs, c1) ==
    LET head_block == fetch_block_by_id(bs, c1, c1.db.head_block_id)
        f == fork_pop_block(bs, c1)
    IN  IF head_block = NullId \/ ~f.ok THEN [ok |-> FALSE, c |-> c1]
        ELSE [ok |-> TRUE,
              c |-> [f.c EXCEPT !.popped_tx = bs[head_block].transactions \o @]]

\* a pop that puts the popped transactions at the end of the list
PopHeadAppend(bs, c1) ==
    LET head_block == fetch_block_by_id(bs, c1, c1.db.head_block_id)
        f == fork_pop_block(bs, c1)
    IN  IF head_block = NullId \/ ~f.ok THEN [ok |-> FALSE, c |-> c1]
        ELSE [ok |-> TRUE,
              c |-> [undo(f.c) EXCEPT
                        !.popped_tx = @ \o bs[head_block].transactions]]

\* pop_block after _pending_tx_session.reset()
PopHead(bs, c1) ==
    LET head_block == fetch_block_by_id(bs, c1, c1.db.head_block_id)
        f == fork_pop_block(bs, c1)
    IN  IF head_block = NullId \/ ~f.ok THEN [ok |-> FALSE, c |-> c1]
        ELSE [ok |-> TRUE,
              c |-> [undo(f.c) EXCEPT
                        !.popped_tx = bs[head_block].transactions \o @]]

\* database::pop_block.  Result: [ok, c].
pop_block(bs, c) ==
    PopHead(bs, IF c.pending_tx_session
                THEN [undo(c) EXCEPT !.pending_tx_session = FALSE]
                ELSE c)

RECURSIVE PopUntil(_, _, _)
\* while (head_block_id() != target) pop_block();
PopUntil(bs, c, target) ==
    IF c.db.head_block_id = target THEN [ok |-> TRUE, c |-> c]
    ELSE LET p == pop_block(bs, c)
         IN  IF p.ok THEN PopUntil(bs, p.c, target) ELSE p

\* ---- push_block ------------------------------------------------------------------

Reverse(q) == [i \in 1..Len(q) |-> q[Len(q) + 1 - i]]

\* a controller that also switches to a branch of equal height
ShouldSwitchAtEqual(new_head_num, head_num) == new_head_num >= head_num

\* _push_block line 787: only switch forks if new_head is actually higher than head
ShouldSwitch(new_head_num, head_num) == new_head_num > head_num

RECURSIVE RemoveAll(_, _)
\* the loop that removes the rest of branches.first from the fork database
RemoveAll(c, ids) ==
    IF ids = <<>> THEN c ELSE RemoveAll(fork_remove(c, Head(ids)), Tail(ids))

RECURSIVE RestoreBranch(_, _, _)
\* "restore all blocks from the good fork": nothing catches a throw here
RestoreBranch(bs, c, ids) ==
    IF ids = <<>> THEN [ok |-> TRUE, c |-> c]
    ELSE LET r == apply_block_in_session(bs, c, Head(ids))
         IN  IF r.ok THEN RestoreBranch(bs, r.c, Tail(ids)) ELSE r

\* the restore of the old branch once the bad fork is popped
RestoreAfterPop(bs, p, second) ==
    IF ~p.ok THEN p ELSE RestoreBranch(bs, p.c, Reverse(second))

\* the handler of a block of the new branch that throws: forget the rest of
\* the new branch, head back to the old branch, pop the bad fork, re-apply the
\* good one.  rest starts with the block that threw.  Result: [ok, c].
RevertSwitch(bs, c, rest, second) ==
    RestoreAfterPop(bs,
        PopUntil(bs, fork_set_head(RemoveAll(c, rest), second[1]),
                 bs[second[Len(second)]].previous),
        second)

\* what the fork-switch arm returns when a block of the new branch threw
SwitchFailed(v, applied, bad) ==
    [ret |-> "throw", c |-> v.c, applied |-> applied, reverted |-> v.ok,
     bad |-> bad]

RECURSIVE PushBranch(_, _, _, _, _)
\* "push all blocks on the new fork", lowest first; applied counts the blocks
\* of the new branch applied so far; bad is the block that threw.
\* Result: [ret, c, applied, reverted, bad].
PushBranch(bs, c, todo, second, applied) ==
    IF todo = <<>>
    THEN [ret |-> "true", c |-> c, applied |-> applied, reverted |-> FALSE,
          bad |-> NullId]
    ELSE LET r == apply_block_in_session(bs, c, Head(todo))
         IN  IF r.ok THEN PushBranch(bs, r.c, Tail(todo), second, applied + 1)
             ELSE SwitchFailed(RevertSwitch(bs, r.c, todo, second), applied,
                               Head(todo))

\* the fork-switch arm once the branches are known
SwitchBranches(bs, br, p) ==
    IF ~p.ok
    THEN [ret |-> "throw", c |-> p.c, applied |-> 0, reverted |-> FALSE,
          bad |-> NullId]
    ELSE PushBranch(bs, p.c, Reverse(br.first), br.second, 0)

\* the fork-switch arm of _push_block
SwitchForks(bs, c, new_head) ==
    LET br == fetch_branch_from(bs, c, new_head, c.db.head_block_id)
    IN  IF ~br.ok
        THEN [ret |-> "throw", c |-> c, applied |-> 0, reverted |-> FALSE,
              bad |-> NullId]
        ELSE SwitchBranches(bs, br,
                 PopUntil(bs, [c EXCEPT !.held = Range(br.first) \cup Range(br.second)],
                          bs[br.second[Len(br.second)]].previous))

\* the arm of _push_block that applies new_block on top of the head
ExtendHead(id, new_head, a) ==
    IF a.ok
    THEN [ret |-> "false", c |-> a.c, path |-> "extend", new_head |-> new_head,
          applied |-> 1, reverted |-> FALSE, bad |-> NullId]
    ELSE [ret |-> "throw", c |-> fork_remove(a.c, id), path |-> "extend",
          new_head |-> new_head, applied |-> 0, reverted |-> FALSE, bad |-> id]

\* the result of the fork-switch arm
Switched(new_head, w) ==
    [ret |-> w.ret, c |-> w.c, path |-> "switch", new_head |-> new_head,
     applied |-> w.applied, reverted |-> w.reverted, bad |-> w.bad]

\* _push_block after _fork_db.push_block
AfterForkPush(bs, c, id, f) ==
    IF ~f.ok
    THEN [ret |-> "throw", c |-> c, path |-> "unlinked", new_head |-> NullId,
          applied |-> 0, reverted |-> FALSE, bad |-> NullId]
    ELSE IF bs[f.c.fork_head].previous # c.db.head_block_id
    THEN IF ShouldSwitch(bs[f.c.fork_head].num, c.db.head_block_number)
         THEN Switched(f.c.fork_head, SwitchForks(bs, f.c, f.c.fork_head))
         ELSE [ret |-> "false", c |-> f.c, path |-> "stay",
               new_head |-> f.c.fork_head, applied |-> 0, reverted |-> FALSE,
               bad |-> NullId]
    ELSE ExtendHead(id, f.c.fork_head, apply_block_in_session(bs, f.c, id))

\* database::_push_block.  Result: [ret, c, path, new_head, applied, reverted,
\* bad];
\* ret is "true", "false" or "throw".
_push_block(bs, c, id) == AfterForkPush(bs, c, id, fork_push_block(bs, c, id))

\* the destructor of pending_transactions_restorer, on every way out
RestorePending(r, saved) ==
    [r EXCEPT !.c = [restore_pending(r.c, saved) EXCEPT !.held = {}]]

\* database::push_block: without_pending_transactions around _push_block
push_block(bs, c, id) ==
    RestorePending(_push_block(bs, clear_pending(c), id), c.pending_tx)

\* set_producing
set_producing(c, p) == [c EXCEPT !.producing = p]

\* the end of push_transaction, on return and in the catch block
EndPushTransaction(r) == [r EXCEPT !.c = set_producing(r.c, FALSE)]

\* database::push_transaction.  Result: [ok, c].
push_transaction(c, trx) ==
    EndPushTransaction(
        _push_transaction(set_producing(c, TRUE), trx,
                          set_producing(c, TRUE).producing))

\* ---- block production -----------------------------------------------------------

RECURSIVE IncludeAnyPending(_, _, _, _)
\* a producer that offers every pending transaction to the block
IncludeAnyPending(d, trxs, when, included) ==
    IF trxs = <<>> THEN included
    ELSE LET r == _apply_transaction(d, Head(trxs), FALSE)
         IN  IF r.ok
             THEN IncludeAnyPending(r.db, Tail(trxs), when, Append(included, Head(trxs)))
             ELSE IncludeAnyPending(d, Tail(trxs), when, included)

\* fc::raw::pack_size(tx), in units of the smallest transaction
TrxSize(t) == IF t = 2 THEN 2 ELSE 1

RECURSIVE SizeOf(_)
\* the packed size of a list of transactions
SizeOf(trxs) ==
    IF trxs = <<>> THEN 0 ELSE TrxSize(Head(trxs)) + SizeOf(Tail(trxs))

\* total_block_size of _generate_block once included is in the block
total_block_size(included) == max_block_header_size + SizeOf(included)

RECURSIVE IncludePendingUpToSize(_, _, _, _)
\* a producer that fills the block up to maximum_block_size
IncludePendingUpToSize(d, trxs, when, included) ==
    IF trxs = <<>> THEN included
    ELSE IF TrxExpiration(Head(trxs)) < when
    THEN IncludePendingUpToSize(d, Tail(trxs), when, included)
    ELSE IF total_block_size(included) + TrxSize(Head(trxs)) > maximum_block_size
    THEN IncludePendingUpToSize(d, Tail(trxs), when, included)
    ELSE LET r == _apply_transaction(d, Head(trxs), FALSE)
         IN  IF r.ok
             THEN IncludePendingUpToSize(r.db, Tail(trxs), when,
                                         Append(included, Head(trxs)))
             ELSE IncludePendingUpToSize(d, Tail(trxs), when, included)

RECURSIVE IncludePending(_, _, _, _)
\* the loop of _generate_block over _pending_tx, on a fresh session over the
\* head state d: transactions that expire before when are passed over, the
\* ones that would make the block too big are postponed, the others are
\* applied and the ones that apply go into the block
IncludePending(d, trxs, when, included) ==
    IF trxs = <<>> THEN included
    ELSE IF TrxExpiration(Head(trxs)) < when
    THEN IncludePending(d, Tail(trxs), when, included)
    ELSE IF total_block_size(included) + TrxSize(Head(trxs)) >= maximum_block_size
    THEN IncludePending(d, Tail(trxs), when, included)
    ELSE LET r == _apply_transaction(d, Head(trxs), FALSE)
         IN  IF r.ok
             THEN IncludePending(r.db, Tail(trxs), when, Append(included, Head(trxs)))
             ELSE IncludePending(d, Tail(trxs), when, included)

\* _generate_block up to push_block: the pending session is reset (the store
\* is back at the head block, _pending_tx is kept)
ResetPendingSession(c) ==
    IF c.pending_tx_session
    THEN [undo(c) EXCEPT !.pending_tx_session = FALSE]
    ELSE c

\* ---- supplies, balances and SBD interest ----------------------------------------

\* asset * price for an SBD amount and a price of base SBD per quote STEEM
SbdToSteem(amount, p) == (amount * p.quote) \div p.base

\* feed_history_object::current_median_history.is_null()
NullPrice == [base |-> 0, quote |-> 0]

\* update_virtual_supply (sbd_print_rate left out)
update_virtual_supply(e) ==
    [e EXCEPT !.virtual_supply =
        e.current_supply + (IF e.median = NullPrice THEN 0
                            ELSE SbdToSteem(e.current_sbd_supply, e.median))]

\* the interest adjust_sbd_balance pays on sbd_seconds
SbdInterest(e, sbd_seconds) ==
    (((sbd_seconds \div STEEMIT_SECONDS_PER_YEAR) * e.sbd_interest_rate)
        \div STEEMIT_100_PERCENT)

\* adjust_sbd_balance, called after the balance was changed
adjust_sbd_balance(e) ==
    IF e.sbd_seconds_last_update = e.time THEN e
    ELSE LET sbd_seconds == e.sbd_seconds
                 + e.sbd_balance * (e.time - e.sbd_seconds_last_update)
             e1 == [e EXCEPT !.sbd_seconds = sbd_seconds,
                             !.sbd_seconds_last_update = e.time]
             interest_paid == SbdInterest(e, sbd_seconds)
         IN  IF sbd_seconds > 0
                /\ e.time - e.sbd_last_interest_payment
                     > STEEMIT_SBD_INTEREST_COMPOUND_INTERVAL_SEC
             THEN [e1 EXCEPT !.sbd_balance = @ + interest_paid,
                             !.sbd_seconds = 0,
                             !.sbd_last_interest_payment = e.time,
                             !.current_sbd_supply = @ + interest_paid,
                             !.virtual_supply =
                                 @ + SbdToSteem(interest_paid, e.median)]
             ELSE e1

\* adjust_balance(account, delta) for an SBD delta
adjust_balance_sbd(e, delta) ==
    IF delta = 0 THEN e
    ELSE adjust_sbd_balance([e EXCEPT !.sbd_balance = @ + delta])

\* adjust_balance(account, delta) for a STEEM delta
adjust_balance_steem(e, delta) == [e EXCEPT !.balance = @ + delta]

\* expire_escrow_ratification: the escrow that was not approved in time is
\* paid back to its sender and removed
expire_escrow_ratification(e) ==
    IF e.escrow.open /\ ~e.escrow.approved
       /\ e.escrow.ratification_deadline <= e.time
    THEN [adjust_balance_sbd(
              adjust_balance_sbd(
                  adjust_balance_steem(e, e.escrow.steem_balance),
                  e.escrow.sbd_balance),
              e.escrow.pending_fee)
          EXCEPT !.escrow.open = FALSE, !.escrow.sbd_balance = 0,
                 !.escrow.steem_balance = 0, !.escrow.pending_fee = 0]
    ELSE e

\* _apply_block for a block at time when, the steps that touch the supplies
\* of a store without comments, conversions, withdrawals and orders:
\* update_virtual_supply (twice) and expire_escrow_ratification
apply_block_supply(e, when) ==
    expire_escrow_ratification(
        update_virtual_supply(update_virtual_supply([e EXCEPT !.time = when])))

\* ---- accounts, vesting shares and witness votes -----------------------------------

Author == "alice"
Voters == <<"bob", "carol">>
Beneficiary == "carol"
Accounts == {Author} \cup Range(Voters)

\* asset * get_vesting_share_price() for a STEEM amount
VestsForSteem(e, steem) ==
    IF e.total_vesting_fund_steem = 0 \/ e.total_vesting_shares = 0
    THEN steem * 1000
    ELSE (steem * e.total_vesting_shares) \div e.total_vesting_fund_steem

\* asset * get_vesting_share_price() for a VESTS amount
SteemForVests(e, vests) ==
    IF e.total_vesting_fund_steem = 0 \/ e.total_vesting_shares = 0
    THEN vests \div 1000
    ELSE (vests * e.total_vesting_fund_steem) \div e.total_vesting_shares

\* adjust_witness_vote of the one witness of the store; the exception of its
\* FC_ASSERT is kept in thrown
adjust_witness_vote(e, delta) ==
    LET votes == e.witness_votes + delta
    IN  [e EXCEPT !.witness_votes = votes,
                  !.thrown = IF @ = "none" /\ votes > e.total_vesting_shares
                             THEN "adjust_witness_vote" ELSE @]

\* adjust_proxied_witness_votes and adjust_witness_votes: no account has a
\* proxy, an account votes for the witness or for none
adjust_proxied_witness_votes(e, a, delta) ==
    IF e.witness_vote[a] THEN adjust_witness_vote(e, delta) ELSE e

create_vesting(e, to_account, steem) ==
    LET new_vesting == VestsForSteem(e, steem)
    IN  adjust_proxied_witness_votes(
            [e EXCEPT !.vesting_shares[to_account] = @ + new_vesting,
                      !.total_vesting_fund_steem = @ + steem,
                      !.total_vesting_shares = @ + new_vesting],
            to_account, new_vesting)

\* adjust_balance(account, delta) for a STEEM delta of one of several accounts
adjust_balance(e, a, steem) == [e EXCEPT !.balance[a] = @ + steem]

\* asset * price for a STEEM amount and a price of base SBD per quote STEEM
SteemToSbd(amount, p) == (amount * p.base) \div p.quote

\* create_sbd; the accounts earn no SBD interest (sbd_interest_rate is 0)
create_sbd(e, to_account, steem) ==
    IF steem = 0 THEN e
    ELSE IF e.median # NullPrice
    THEN LET to_sbd == (e.sbd_print_rate * steem) \div STEEMIT_100_PERCENT
             to_steem == steem - to_sbd
             sbd == SteemToSbd(to_sbd, e.median)
         IN  [adjust_balance(e, to_account, to_steem)
              EXCEPT !.sbd_balance[to_account] = @ + sbd,
                     !.current_supply = @ - to_sbd,
                     !.current_sbd_supply = @ + sbd]
    ELSE adjust_balance(e, to_account, steem)

\* ---- vesting withdrawals ----------------------------------------------------------

\* the accounts in the order of their ids
AccountOrder == <<Author>> \o Voters

AccountId(a) == CHOOSE i \in DOMAIN AccountOrder : AccountOrder[i] = a

\* process_vesting_withdrawals: the shares an account withdraws this time
ToWithdraw(e, a) ==
    IF e.to_withdraw[a] - e.withdrawn[a] < e.vesting_withdraw_rate[a]
    THEN Min(e.vesting_shares[a], e.to_withdraw[a] % e.vesting_withdraw_rate[a])
    ELSE Min(e.vesting_shares[a], e.vesting_withdraw_rate[a])

\* the share of a route in a withdrawal
ToDeposit(to_withdraw, route) ==
    (to_withdraw * route.percent) \div STEEMIT_100_PERCENT

\* an auto-vest deposit that also counts the shares as new ones
DepositNewVests(e, to_account, to_deposit) ==
    IF to_deposit > 0
    THEN adjust_proxied_witness_votes(
             [e EXCEPT !.vesting_shares[to_account] = @ + to_deposit,
                       !.total_vesting_shares = @ + to_deposit],
             to_account, to_deposit)
    ELSE e

\* process_vesting_withdrawals: the deposit of an auto-vest route
DepositVests(e, to_account, to_deposit) ==
    IF to_deposit > 0
    THEN adjust_proxied_witness_votes(
             [e EXCEPT !.vesting_shares[to_account] = @ + to_deposit],
             to_account, to_deposit)
    ELSE e

RECURSIVE DepositAsVests(_, _, _)
\* process_vesting_withdrawals: the first pass over the routes
DepositAsVests(e, routes, to_withdraw) ==
    IF routes = <<>> THEN [e |-> e, deposited |-> 0]
    ELSE IF Head(routes).auto_vest
    THEN LET r == DepositAsVests(
                      DepositVests(e, Head(routes).to_account,
                                   ToDeposit(to_withdraw, Head(routes))),
                      Tail(routes), to_withdraw)
         IN  [e |-> r.e,
              deposited |-> r.deposited + ToDeposit(to_withdraw, Head(routes))]
    ELSE DepositAsVests(e, Tail(routes), to_withdraw)

\* process_vesting_withdrawals: the deposit of a route that pays STEEM
DepositSteem(e, to_account, to_deposit) ==
    LET converted_steem == SteemForVests(e, to_deposit)
    IN  IF to_deposit > 0
        THEN [adjust_balance(e, to_account, converted_steem)
              EXCEPT !.total_vesting_fund_steem = @ - converted_steem,
                     !.total_vesting_shares = @ - to_deposit]
        ELSE e

RECURSIVE DepositAsSteem(_, _, _)
\* process_vesting_withdrawals: the second pass over the routes
DepositAsSteem(e, routes, to_withdraw) ==
    IF routes = <<>> THEN [e |-> e, deposited |-> 0]
    ELSE IF ~Head(routes).auto_vest
    THEN LET r == DepositAsSteem(
                      DepositSteem(e, Head(routes).to_account,
                                   ToDeposit(to_withdraw, Head(routes))),
                      Tail(routes), to_withdraw)
         IN  [e |-> r.e,
              deposited |-> r.deposited + ToDeposit(to_withdraw, Head(routes))]
    ELSE DepositAsSteem(e, Tail(routes), to_withdraw)

\* process_vesting_withdrawals: one account whose withdrawal is due
WithdrawVesting(e, from_account) ==
    LET to_withdraw == ToWithdraw(e, from_account)
        vests == DepositAsVests(e, e.routes[from_account], to_withdraw)
        steem == DepositAsSteem(vests.e, e.routes[from_account], to_withdraw)
        to_convert == to_withdraw - steem.deposited - vests.deposited
        converted_steem == SteemForVests(steem.e, to_convert)
        withdrawn == e.withdrawn[from_account] + to_withdraw
        e1 == [adjust_balance(steem.e, from_account, converted_steem)
               EXCEPT !.vesting_shares[from_account] = @ - to_withdraw,
                      !.withdrawn[from_account] = withdrawn]
        done == withdrawn >= e.to_withdraw[from_account]
                \/ e1.vesting_shares[from_account] = 0
        e2 == [e1 EXCEPT !.vesting_withdraw_rate[from_account] =
                             IF done THEN 0 ELSE @,
                         !.next_vesting_withdrawal[from_account] =
                             IF done THEN time_point_sec_maximum
                             ELSE @ + STEEMIT_VESTING_WITHDRAW_INTERVAL_SECONDS,
                         !.total_vesting_fund_steem = @ - converted_steem,
                         !.total_vesting_shares = @ - to_convert]
    IN  IF to_convert < 0
        THEN [steem.e EXCEPT !.thrown = IF @ = "none" THEN "to_convert" ELSE @]
        ELSE IF to_withdraw > 0
        THEN adjust_proxied_witness_votes(e2, from_account, -to_withdraw)
        ELSE e2

RECURSIVE DueOrder(_, _)
\* the accounts of a set in the order of the by_next_vesting_withdrawal index
DueOrder(e, S) ==
    IF S = {} THEN <<>>
    ELSE LET a == CHOOSE x \in S : \A y \in S :
                      \/ e.next_vesting_withdrawal[x] < e.next_vesting_withdrawal[y]
                      \/ /\ e.next_vesting_withdrawal[x] = e.next_vesting_withdrawal[y]
                         /\ AccountId(x) <= AccountId(y)
         IN  <<a>> \o DueOrder(e, S \ {a})

\* the accounts whose withdrawal is due
DueAccounts(e) == {a \in Accounts : e.next_vesting_withdrawal[a] <= e.time}

RECURSIVE WithdrawAll(_, _)
WithdrawAll(e, accounts) ==
    IF accounts = <<>> THEN e
    ELSE WithdrawAll(WithdrawVesting(e, Head(accounts)), Tail(accounts))

process_vesting_withdrawals(e) == WithdrawAll(e, DueOrder(e, DueAccounts(e)))

\* process_funds from hardfork 16 on, for a vesting reward and a witness reward
\* of the block; the supplies and the reward fund are not part of this store
process_funds(e, vesting_reward, witness_reward) ==
    create_vesting([e EXCEPT !.total_vesting_fund_steem = @ + vesting_reward],
                   e.current_witness, witness_reward)

\* ---- comments and the reward pool -----------------------------------------------

Comments == 1..MaxComments
Funds == {"post", "comment"}

\* fc::uint128 arithmetic wraps
Uint128(x) == x % (2 ^ Rshares2Bits)

\* utilities::calculate_vshares
calculate_vshares(rshares) ==
    (rshares + STEEMIT_CONTENT_CONSTANT) * (rshares + STEEMIT_CONTENT_CONSTANT)
        - STEEMIT_CONTENT_CONSTANT * STEEMIT_CONTENT_CONSTANT

RECURSIVE InOrder(_)
\* the members of a set of numbers in ascending order, as an index yields them
InOrder(S) ==
    IF S = {} THEN <<>>
    ELSE LET m == CHOOSE x \in S : \A y \in S : x <= y
         IN  <<m>> \o InOrder(S \ {m})

RECURSIVE RootOf(_, _)
\* comment_object::root_comment
RootOf(e, c) ==
    IF e.comments[c].parent = 0 THEN c ELSE RootOf(e, e.comments[c].parent)

RECURSIVE update_children_rshares2(_, _, _, _)
update_children_rshares2(e, c, old_rshares2, new_rshares2) ==
    LET e1 == [e EXCEPT !.comments[c].children_rshares2 =
                   Uint128(Uint128(@ - old_rshares2) + new_rshares2)]
    IN  IF e.comments[c].parent = 0 THEN e1
        ELSE update_children_rshares2(e1, e.comments[c].parent,
                                      old_rshares2, new_rshares2)

adjust_rshares2(e, c, old_rshares2, new_rshares2) ==
    [update_children_rshares2(e, c, old_rshares2, new_rshares2)
     EXCEPT !.total_reward_shares2 =
                Uint128(Uint128(@ - old_rshares2) + new_rshares2)]

\* get_reward_fund: the name of the fund of a comment
get_reward_fund(e, c) == IF e.comments[c].parent = 0 THEN "post" ELSE "comment"

get_curation_rewards_percent(e, c) ==
    IF has_hardfork(e, STEEMIT_HARDFORK_0_17) /\ e.comments[c].parent # 0
    THEN 0
    ELSE (STEEMIT_100_PERCENT \div 100) * 25

\* utilities::get_rshare_reward for a comment with reward_weight 100% whose
\* max_accepted_payout is above every payout; a negative fund or a total of
\* zero ends in an exception
get_rshare_reward(ctx, rshares) ==
    IF ctx.total_reward_shares2 = 0 \/ ctx.total_reward_fund_steem < 0
    THEN [thrown |-> TRUE, payout |-> 0]
    ELSE [thrown |-> FALSE,
          payout |-> (ctx.total_reward_fund_steem * calculate_vshares(rshares))
                         \div ctx.total_reward_shares2]

\* the votes of a comment in the order of the by_comment_weight_voter index
VoteOrder(com) ==
    IF com.weight[Voters[2]] > com.weight[Voters[1]]
    THEN <<Voters[2], Voters[1]>> ELSE Voters

RECURSIVE PayVotes(_, _, _, _, _)
\* the loop of pay_curators
PayVotes(e, com, voters, max_rewards, unclaimed_rewards) ==
    IF voters = <<>> THEN [e |-> e, unclaimed_rewards |-> unclaimed_rewards]
    ELSE LET claim == (max_rewards * com.weight[Head(voters)])
                          \div com.total_vote_weight
         IN  IF claim > 0
             THEN PayVotes(create_vesting(e, Head(voters), claim), com,
                           Tail(voters), max_rewards, unclaimed_rewards - claim)
             ELSE PayVotes(e, com, Tail(voters), max_rewards, unclaimed_rewards)

\* pay_curators: max_rewards after the loop is what the voters claimed
CuratorsPaid(r, max_rewards) ==
    [e |-> r.e, unclaimed_rewards |-> r.unclaimed_rewards,
     max_rewards |-> max_rewards - r.unclaimed_rewards]

\* pay_curators: the store, the unclaimed rewards and max_rewards afterwards
pay_curators(e, c, max_rewards) ==
    IF ~e.comments[c].allow_curation_rewards
    THEN [e |-> e, unclaimed_rewards |-> 0, max_rewards |-> 0]
    ELSE IF e.comments[c].total_vote_weight > 0
    THEN CuratorsPaid(PayVotes(e, e.comments[c], VoteOrder(e.comments[c]),
                               max_rewards, max_rewards),
                      max_rewards)
    ELSE [e |-> e, unclaimed_rewards |-> max_rewards, max_rewards |-> 0]

\* cashout_comment_helper: the author is paid half of the comment's
\* percent_steem_dollars in SBD and the rest in vesting shares
PayAuthor(e, author_tokens, sbd_steem) ==
    create_sbd(create_vesting(e, Author, author_tokens - sbd_steem),
               Author, sbd_steem)

\* cashout_comment_helper: the beneficiary of the comment, if it has one, and
\* then the author are paid
PayBeneficiary(e, com, author_tokens, total_beneficiary) ==
    PayAuthor(IF com.beneficiary_weight > 0
              THEN create_vesting(e, Beneficiary, total_beneficiary)
              ELSE e,
              author_tokens - total_beneficiary,
              ((author_tokens - total_beneficiary) * com.percent_steem_dollars)
                  \div (2 * STEEMIT_100_PERCENT))

\* cashout_comment_helper: the tokens the curators left go to the author
PayAfterCurators(pc, com, author_tokens) ==
    [e |-> PayBeneficiary(pc.e, com, author_tokens,
                          (author_tokens * com.beneficiary_weight)
                              \div STEEMIT_100_PERCENT),
     claimed_reward |-> author_tokens + pc.max_rewards]

\* cashout_comment_helper: the curators are paid first
PayCurators(pc, com, author_tokens) ==
    PayAfterCurators(pc, com, author_tokens + pc.unclaimed_rewards)

\* the curation share of a reward
CurationTokens(e, c, reward) ==
    (reward * get_curation_rewards_percent(e, c)) \div STEEMIT_100_PERCENT

\* cashout_comment_helper, the tokens of a reward above zero
PayReward(e, c, reward) ==
    PayCurators(pay_curators(e, c, CurationTokens(e, c, reward)),
                e.comments[c], reward - CurationTokens(e, c, reward))

\* cashout_comment_helper: the store afterwards and the claimed reward
cashout_comment_helper(e, ctx, c) ==
    LET com == e.comments[c]
        r == get_rshare_reward(ctx, com.net_rshares)
        paid == IF r.payout > 0 THEN PayReward(e, c, r.payout)
                ELSE [e |-> e, claimed_reward |-> 0]
        old_rshares2 == calculate_vshares(com.net_rshares)
        e1 == IF ~has_hardfork(e, STEEMIT_HARDFORK_0_17)
              THEN adjust_rshares2(paid.e, c, old_rshares2, 0)
              ELSE paid.e
        e2 == [e1 EXCEPT !.total_reward_fund_steem = @ - r.payout]
        e3 == adjust_rshares2(e2, c, old_rshares2, 0)
        e4 == IF com.net_rshares > 0
              THEN [e3 EXCEPT !.thrown = IF @ = "none" /\ r.thrown
                                         THEN "get_rshare_reward" ELSE @]
              ELSE e
    IN  [e |-> [e4 EXCEPT !.comments[c].net_rshares = IF @ > 0 THEN 0 ELSE @,
                          !.comments[c].total_vote_weight = 0,
                          !.comments[c].weight = [v \in Range(Voters) |-> 0],
                          !.comments[c].last_payout = TRUE],
         claimed_reward |-> IF com.net_rshares > 0 THEN paid.claimed_reward
                            ELSE 0]

\* process_comment_cashout: the reward funds with their decayed recent rshares
DecayedFunds(e) ==
    [f \in DOMAIN e.reward_funds |->
        [recent_rshares2 |->
             Uint128(e.reward_funds[f].recent_rshares2
                     - ((e.reward_funds[f].recent_rshares2
                           * (e.time - e.reward_funds[f].last_update))
                          \div STEEMIT_RECENT_RSHARES_DECAY_RATE)),
         reward_balance |-> e.reward_funds[f].reward_balance,
         steem_awarded |-> 0]]

\* the recent rshares of a fund grow by the rshares2 of a comment
AddRecent(e, funds, c) ==
    IF e.comments[c].net_rshares > 0
    THEN [funds EXCEPT ![get_reward_fund(e, c)].recent_rshares2 =
              Uint128(@ + calculate_vshares(e.comments[c].net_rshares))]
    ELSE funds

RECURSIVE AddAllRecent(_, _, _)
\* process_comment_cashout: the first loop from hardfork 17 on
AddAllRecent(e, funds, cs) ==
    IF cs = <<>> THEN funds
    ELSE AddAllRecent(e, AddRecent(e, funds, Head(cs)), Tail(cs))

RECURSIVE CashoutFromFunds(_, _, _)
\* process_comment_cashout: the payout loop from hardfork 17 on
CashoutFromFunds(e, funds, cs) ==
    IF cs = <<>> THEN [e |-> e, funds |-> funds]
    ELSE LET f == get_reward_fund(e, Head(cs))
             r == cashout_comment_helper(e,
                      [total_reward_shares2 |-> funds[f].recent_rshares2,
                       total_reward_fund_steem |-> funds[f].reward_balance],
                      Head(cs))
         IN  CashoutFromFunds(r.e,
                 [funds EXCEPT ![f].steem_awarded = @ + r.claimed_reward],
                 Tail(cs))

RECURSIVE CashoutDiscussion(_, _, _)
\* process_comment_cashout: the comments of one discussion before hardfork 17
CashoutDiscussion(e, funds, cs) ==
    IF cs = <<>> THEN [e |-> e, funds |-> funds]
    ELSE LET r == cashout_comment_helper(e,
                      [total_reward_shares2 |-> e.total_reward_shares2,
                       total_reward_fund_steem |-> e.total_reward_fund_steem],
                      Head(cs))
         IN  CashoutDiscussion(
                 [r.e EXCEPT !.total_reward_fund_steem =
                      IF r.claimed_reward > 0 THEN @ - r.claimed_reward ELSE @],
                 IF DOMAIN funds # {} THEN AddRecent(e, funds, Head(cs))
                 ELSE funds,
                 Tail(cs))

RECURSIVE CashoutRoots(_, _, _)
\* process_comment_cashout: the payout loop before hardfork 17
CashoutRoots(e, funds, roots) ==
    IF roots = <<>> THEN [e |-> e, funds |-> funds]
    ELSE LET r == CashoutDiscussion(e, funds,
                      InOrder({c \in Comments : RootOf(e, c) = Head(roots)}))
         IN  CashoutRoots(r.e, r.funds, Tail(roots))

\* process_comment_cashout; due are the comments whose cashout_time has come
process_comment_cashout(e, due) ==
    LET funds == DecayedFunds(e)
        r == IF has_hardfork(e, STEEMIT_HARDFORK_0_17)
             THEN CashoutFromFunds(e, AddAllRecent(e, funds, InOrder(due)),
                                   InOrder(due))
             ELSE CashoutRoots(e, funds, InOrder(due))
    IN  [r.e EXCEPT !.reward_funds =
            [f \in DOMAIN e.reward_funds |->
                [recent_rshares2 |-> r.funds[f].recent_rshares2,
                 reward_balance |-> e.reward_funds[f].reward_balance
                                      - r.funds[f].steem_awarded,
                 last_update |-> e.time]]]

\* ---- market-issued assets: orders, fills and global settlement ---------------------

\* the market-issued asset and the asset that backs it
Symbols == {"USD", "CORE"}

Asset(amount, symbol) == [amount |-> amount, symbol |-> symbol]

Price(base, quote) == [base |-> base, quote |-> quote]

\* asset * price
AssetTimesPrice(a, p) ==
    IF a.symbol = p.base.symbol
    THEN Asset((a.amount * p.quote.amount) \div p.base.amount, p.quote.symbol)
    ELSE Asset((a.amount * p.base.amount) \div p.quote.amount, p.base.symbol)

\* price() of the two assets of the market
NullMarketPrice == Price(Asset(0, "USD"), Asset(0, "CORE"))

\* asset_bitasset_data_object::has_settlement
has_settlement(e) == e.settlement_price # NullMarketPrice

\* adjust_balance(account, delta) for an asset of the market
adjust_asset_balance(e, a, delta) ==
    [e EXCEPT !.balance[a][delta.symbol] = @ + delta.amount]

calculate_market_fee(e, trade_amount) ==
    IF ~e.asset[trade_amount.symbol].charges_market_fees THEN 0
    ELSE IF e.asset[trade_amount.symbol].market_fee_percent = 0 THEN 0
    ELSE Min((trade_amount.amount
                * e.asset[trade_amount.symbol].market_fee_percent)
                 \div STEEMIT_100_PERCENT,
             e.asset[trade_amount.symbol].max_market_fee)

\* pay_market_fees: the store afterwards; the fee is calculate_market_fee
pay_market_fees(e, receives) ==
    IF calculate_market_fee(e, receives) > 0
    THEN [e EXCEPT !.asset[receives.symbol].accumulated_fees =
              @ + calculate_market_fee(e, receives)]
    ELSE e

\* the fills of the operation in progress, for the record
Filled(e, kind, receiver, receives) ==
    [e EXCEPT !.fills = Append(@, [fill |-> kind, receiver |-> receiver,
                                   receives |-> receives])]

\* limit_order_object::amount_to_receive
amount_to_receive(order) ==
    AssetTimesPrice(Asset(order.for_sale, order.sell_price.base.symbol),
                    order.sell_price)

\* cancel_order(limit_order_object) of an order without a deferred fee
cancel_order(e, o) ==
    [adjust_asset_balance(e, e.limit[o].seller,
         Asset(e.limit[o].for_sale, e.limit[o].sell_price.base.symbol))
     EXCEPT !.limit[o].open = FALSE, !.limit[o].for_sale = 0]

\* fill_order(limit_order_object)
fill_order_limit(e, o, pays, receives) ==
    LET e1 == Filled(adjust_asset_balance(e, e.limit[o].seller, receives),
                     "limit", e.limit[o].seller, receives)
        e2 == [e1 EXCEPT !.limit[o].for_sale = @ - pays.amount]
    IN  IF pays.amount = e.limit[o].for_sale
        THEN [e1 EXCEPT !.limit[o].open = FALSE, !.limit[o].for_sale = 0]
        ELSE IF amount_to_receive(e2.limit[o]).amount = 0
        THEN cancel_order(e2, o)
        ELSE e2

\* a call order fill that keeps the collateral that is left
FillCallKeepingCollateral(e, b, pays, receives) ==
    LET debt == e.calls[b].debt - receives.amount
    IN  [e EXCEPT !.calls[b].debt = debt,
                  !.calls[b].collateral = IF debt = 0 THEN 0 ELSE @ - pays.amount,
                  !.calls[b].open = debt # 0,
                  !.asset[receives.symbol].current_supply = @ - receives.amount,
                  !.thrown = IF @ = "none" /\ e.calls[b].collateral < pays.amount
                             THEN "fill_order" ELSE @]

\* fill_order(call_order_object): the debt shrinks by what the order
\* receives, and an order without debt gives its collateral back
fill_order_call(e, b, pays, receives) ==
    LET debt == e.calls[b].debt - receives.amount
        collateral == e.calls[b].collateral - pays.amount
        e1 == [e EXCEPT !.calls[b].debt = debt,
                        !.calls[b].collateral = IF debt = 0 THEN 0 ELSE collateral,
                        !.calls[b].open = debt # 0,
                        !.asset[receives.symbol].current_supply =
                            @ - receives.amount,
                        !.thrown = IF @ = "none" /\ e.calls[b].collateral < pays.amount
                                   THEN "fill_order" ELSE @]
    IN  Filled(IF debt = 0
               THEN adjust_asset_balance(e1, b, Asset(collateral, pays.symbol))
               ELSE e1,
               "call", b, receives)

\* fill_order(force_settlement_object)
fill_order_settle(e, pays, receives) ==
    LET e1 == pay_market_fees(e, receives)
        e2 == IF pays.amount < e.settle.balance
              THEN [e1 EXCEPT !.settle.balance = @ - pays.amount]
              ELSE [e1 EXCEPT !.settle.balance = 0, !.settle.open = FALSE]
    IN  Filled(adjust_asset_balance(e2, e.settle.owner,
                   Asset(receives.amount - calculate_market_fee(e, receives),
                         receives.symbol)),
               "settle", e.settle.owner, receives)

\* match(limit_order_object, limit_order_object, price): the two fills
FillBoth(e, new_order_receives, old_order_receives) ==
    fill_order_limit(fill_order_limit(e, "new", old_order_receives,
                                      new_order_receives),
                     "old", new_order_receives, old_order_receives)

\* match(limit_order_object, limit_order_object, price)
match_limit(e, match_price) ==
    LET new_order_for_sale ==
            Asset(e.limit.new.for_sale, e.limit.new.sell_price.base.symbol)
        old_order_for_sale ==
            Asset(e.limit.old.for_sale, e.limit.old.sell_price.base.symbol)
    IN  IF new_order_for_sale.amount
             <= AssetTimesPrice(old_order_for_sale, match_price).amount
        THEN FillBoth(e, AssetTimesPrice(new_order_for_sale, match_price),
                      new_order_for_sale)
        ELSE FillBoth(e, old_order_for_sale,
                      AssetTimesPrice(old_order_for_sale, match_price))

\* match(call_order_object, force_settlement_object, price, asset): the fills
FillSettlement(e, b, call_receives, call_pays) ==
    IF call_pays.amount >= e.calls[b].collateral
    THEN [e EXCEPT !.thrown = "black_swan_exception"]
    ELSE fill_order_settle(fill_order_call(e, b, call_pays, call_receives),
                           call_receives, call_pays)

\* match(call_order_object, force_settlement_object, price, asset)
match_settle(e, b, match_price, max_settlement) ==
    FillSettlement(e, b,
        Asset(Min(Min(e.settle.balance, max_settlement), e.calls[b].debt), "USD"),
        AssetTimesPrice(
            Asset(Min(Min(e.settle.balance, max_settlement), e.calls[b].debt),
                  "USD"),
            match_price))

\* globally_settle_asset: what a call order pays at the settlement price
SettlementPays(e, b, settlement_price) ==
    Min(AssetTimesPrice(Asset(e.calls[b].debt, "USD"), settlement_price).amount,
        e.calls[b].collateral)

RECURSIVE CloseCalls(_, _, _, _)
\* globally_settle_asset: the loop over the call orders
CloseCalls(e, borrowers, settlement_price, collateral_gathered) ==
    IF borrowers = <<>>
    THEN [e |-> e, collateral_gathered |-> collateral_gathered]
    ELSE CloseCalls(
             fill_order_call(e, Head(borrowers),
                 Asset(SettlementPays(e, Head(borrowers), settlement_price), "CORE"),
                 Asset(e.calls[Head(borrowers)].debt, "USD")),
             Tail(borrowers), settlement_price,
             collateral_gathered
               + SettlementPays(e, Head(borrowers), settlement_price))

\* globally_settle_asset: the settlement is written down and the supply of
\* before the fills is restored
Settled(e, closed) ==
    [closed.e EXCEPT
        !.settlement_price = Price(Asset(e.asset["USD"].current_supply, "USD"),
                                   Asset(closed.collateral_gathered, "CORE")),
        !.settlement_fund = closed.collateral_gathered,
        !.asset["USD"].current_supply = e.asset["USD"].current_supply]

\* the call orders in the order of the by_price index: the least
\* collateralized first, equal ones in the order of their ids
CallOrder(e) ==
    LET a == AccountOrder[1]
        b == AccountOrder[2]
        open == SelectSeq(<<a, b>>, LAMBDA x : e.calls[x].open)
    IN  IF Len(open) = 2
           /\ e.calls[b].collateral * e.calls[a].debt
                < e.calls[a].collateral * e.calls[b].debt
        THEN <<b, a>> ELSE open

globally_settle_asset(e, settlement_price) ==
    IF has_settlement(e)
    THEN [e EXCEPT !.thrown = "has_settlement"]
    ELSE Settled(e, CloseCalls(e, CallOrder(e), settlement_price, 0))

\* ---- the state machine ------------------------------------------------------------

NoState == [head_block_number |-> -1]

\* the part of the store the chain runs leave as genesis made it
NoEcon == [kind |-> "none"]

NoCall == [op |-> "none", block |-> NullId, trx |-> 0, ret |-> "none",
           path |-> "none", new_head |-> NullId, applied |-> 0, reverted |-> FALSE,
           bad |-> NullId, follows |-> FALSE, dropped |-> {}]

\* init_genesis: the store at block 0; the schedule holds the one init witness
Genesis ==
    [head_block_number |-> 0, head_block_id |-> NullId, time |-> 0,
     current_aslot |-> 0, last_irreversible_block_num |-> 0,
     num_scheduled_witnesses |-> 1,
     last_confirmed_block_num |-> [w \in Witnesses |-> 0],
     trx_index |-> {}, last_hardfork |-> 0, processed_hardforks |-> <<0>>,
     next_hardfork |-> 0, next_hardfork_time |-> 0,
     block_summary |-> [i \in 0..(SummarySize - 1) |-> NullId]]

BlockIds == 1..Max(Max(Max(MaxBlocks, MaxChain), MaxDedupeBlocks), MaxProduced)

\* a node opened on an empty data directory: init_genesis, one witness
Init ==
    /\ blocks = <<>>
    /\ db = Genesis
    /\ undo_stack = <<>>
    /\ revision = 0
    /\ block_log = <<>>
    /\ fork_index = {}
    /\ fork_head = NullId
    /\ fork_max_size = 1024
    /\ pending_tx = <<>>
    /\ pending_tx_session = FALSE
    /\ popped_tx = <<>>
    /\ producing = FALSE
    /\ hardfork_times = init_hardforks
    /\ econ = NoEcon
    /\ pre_apply = [i \in BlockIds |-> NoState]
    /\ last = NoCall

\* the controller state after a call
Become(c) ==
    /\ db' = c.db
    /\ undo_stack' = c.undo_stack
    /\ revision' = c.revision
    /\ block_log' = c.block_log
    /\ fork_index' = c.fork_index
    /\ fork_head' = c.fork_head
    /\ fork_max_size' = c.fork_max_size
    /\ pending_tx' = c.pending_tx
    /\ pending_tx_session' = c.pending_tx_session
    /\ popped_tx' = c.popped_tx
    /\ producing' = c.producing
    /\ hardfork_times' = c.hardfork_times
    /\ econ' = econ
    /\ pre_apply' = c.pre_apply

\* the transaction lists a produced block may carry
BlockTransactions == {<<>>} \cup {<<t>> : t \in TrxIds}

\* a block a witness could sign on top of parent (NullId: on genesis)
NewBlock(parent, slot, trxs, fail, sched) ==
    LET ptime == IF parent = NullId THEN 0 ELSE blocks[parent].timestamp
        pnum  == IF parent = NullId THEN 0 ELSE blocks[parent].num
    IN  [previous |-> parent, num |-> pnum + 1, timestamp |-> ptime + slot,
         witness |-> (ptime + slot) % db.num_scheduled_witnesses,
         transactions |-> trxs, fail |-> fail, sched |-> sched]

Pushed(bs, id, r) ==
    /\ blocks' = bs
    /\ Become(r.c)
    /\ last' = [op |-> "push_block", block |-> id, trx |-> 0, ret |-> r.ret,
                path |-> r.path, new_head |-> r.new_head,
                applied |-> r.applied, reverted |-> r.reverted, bad |-> r.bad,
                follows |-> FALSE,
                dropped |-> Range(pending_tx) \ Range(r.c.pending_tx)]

DoPushBlock(bs, id) == Pushed(bs, id, push_block(bs, Chain, id))

\* push_block of a block received for the first time (a block's id is the
\* hash of its content, so a block received for the first time differs from
\* every block received before)
PushNewBlock ==
    \E parent \in {NullId} \cup (1..Len(blocks)), slot \in 1..MaxSlot,
       trxs \in BlockTransactions, fail \in {"none"} \cup FailSteps :
        /\ Len(blocks) < MaxBlocks
        /\ NewBlock(parent, slot, trxs, fail, 1).timestamp <= MaxTime
        /\ NewBlock(parent, slot, trxs, fail, 1) \notin Range(blocks)
        /\ fail # "none" =>
             Cardinality({i \in 1..Len(blocks) : blocks[i].fail # "none"}) < MaxBadBlocks
        /\ DoPushBlock(Append(blocks, NewBlock(parent, slot, trxs, fail, 1)),
                       Len(blocks) + 1)

\* push_block of a block that was received before
PushKnownBlock ==
    \E id \in 1..Len(blocks) : DoPushBlock(blocks, id)

\* the call before this one was a push_block that applied its block on the head
JustExtended ==
    /\ last.op = "push_block"
    /\ last.path = "extend"
    /\ last.ret = "false"
    /\ last.block = db.head_block_id

Called(op, block, trx, r) ==
    /\ blocks' = blocks
    /\ Become(r.c)
    /\ last' = [NoCall EXCEPT !.op = op, !.block = block, !.trx = trx,
                              !.ret = IF r.ok THEN "ok" ELSE "throw",
                              !.follows = JustExtended]

\* pop_block called from outside
PopBlock ==
    /\ db.head_block_number > 0
    /\ Called("pop_block", db.head_block_id, 0, pop_block(blocks, Chain))

\* push_transaction called from outside
PushTransaction ==
    \E trx \in TrxIds :
        /\ Len(pending_tx) < MaxPending
        /\ Called("push_transaction", NullId, trx, push_transaction(Chain, trx))

Next == PushNewBlock \/ PushKnownBlock \/ PopBlock \/ PushTransaction

Spec == Init /\ [][Next]_vars

\* ---- one chain, built block by block on the node's own head ----------------------

\* push_block of a new block built on the store's head, in a round that
\* ends with a schedule of sched witnesses
PushNextBlock ==
    \E slot \in 1..MaxChainSlot, fail \in {"none"} \cup FailSteps,
       sched \in SchedSizes :
        /\ Len(blocks) < MaxChain
        /\ NewBlock(db.head_block_id, slot, <<>>, fail, sched) \notin Range(blocks)
        /\ fail # "none" =>
             Cardinality({i \in 1..Len(blocks) : blocks[i].fail # "none"}) < MaxBadBlocks
        /\ DoPushBlock(Append(blocks,
                              NewBlock(db.head_block_id, slot, <<>>, fail, sched)),
                       Len(blocks) + 1)

NextChain == PushNextBlock \/ PopBlock

SpecChain == Init /\ [][NextChain]_vars

\* ---- one chain of the init witness, with transactions, popped and rebuilt --------

\* push_block of a new block with transactions built on the store's head
PushOwnBlock ==
    \E slot \in 1..MaxSlot, trxs \in BlockTransactions :
        /\ Len(blocks) < MaxChain
        /\ NewBlock(db.head_block_id, slot, trxs, "none", 1) \notin Range(blocks)
        /\ DoPushBlock(Append(blocks,
                              NewBlock(db.head_block_id, slot, trxs, "none", 1)),
                       Len(blocks) + 1)

NextUndo == PushOwnBlock \/ PopBlock \/ PushTransaction

SpecUndo == Init /\ [][NextUndo]_vars

\* ---- blocks with any header, as a peer may send them ---------------------------

\* a block as it arrives from the network: its number is read from the id of
\* its parent (block_num() = num_from_id(previous) + 1), the other header
\* fields are whatever the sender wrote
SignedBlock(parent, timestamp, witness, sched) ==
    [previous |-> parent,
     num |-> (IF parent = NullId THEN 0 ELSE blocks[parent].num) + 1,
     timestamp |-> timestamp, witness |-> witness,
     transactions |-> <<>>, fail |-> "none", sched |-> sched]

\* push_block of a new block whose header fields are arbitrary
PushSignedBlock ==
    \E parent \in {NullId} \cup (1..Len(blocks)), timestamp \in 0..MaxTime,
       witness \in 0..MaxHeaderWitness, sched \in {1, MaxHeaderWitness + 1} :
        /\ Len(blocks) < MaxBlocks
        /\ SignedBlock(parent, timestamp, witness, sched) \notin Range(blocks)
        /\ DoPushBlock(Append(blocks, SignedBlock(parent, timestamp, witness, sched)),
                       Len(blocks) + 1)

NextHeader == PushSignedBlock \/ PushKnownBlock \/ PopBlock

SpecHeader == Init /\ [][NextHeader]_vars

\* ---- blocks that carry any transaction, the stale one included -----------------

\* push_block of a new block built on the store's head, with at most one
\* transaction out of all of them
PushTrxBlock ==
    \E slot \in 1..MaxChainSlot, trxs \in BlockTransactions \cup {<<StaleTrx>>} :
        /\ Len(blocks) < MaxDedupeBlocks
        /\ NewBlock(db.head_block_id, slot, trxs, "none", 1) \notin Range(blocks)
        /\ DoPushBlock(Append(blocks,
                              NewBlock(db.head_block_id, slot, trxs, "none", 1)),
                       Len(blocks) + 1)

NextDedupe == PushTrxBlock \/ PopBlock

SpecDedupe == Init /\ [][NextDedupe]_vars

\* ---- blocks whose transactions refer to a block --------------------------------

\* push_block of a new block built on the store's head, with at most one
\* transaction that refers to a summary entry
PushTaposBlock ==
    \E trxs \in {<<>>} \cup {<<t>> : t \in TaposTrxIds} :
        /\ Len(blocks) < MaxChain
        /\ NewBlock(db.head_block_id, 1, trxs, "none", 1) \notin Range(blocks)
        /\ DoPushBlock(Append(blocks,
                              NewBlock(db.head_block_id, 1, trxs, "none", 1)),
                       Len(blocks) + 1)

NextTapos == PushTaposBlock \/ PopBlock

SpecTapos == Init /\ [][NextTapos]_vars

\* ---- hardforks set by hand and applied by the blocks that follow ---------------

\* push_block of a new block without transactions built on the store's head
PushPlainBlock ==
    \E fail \in {"none", "hardfork"} :
        /\ Len(blocks) < MaxBlocks
        /\ NewBlock(db.head_block_id, 1, <<>>, fail, 1) \notin Range(blocks)
        /\ fail # "none" =>
             Cardinality({i \in 1..Len(blocks) : blocks[i].fail # "none"}) < MaxBadBlocks
        /\ DoPushBlock(Append(blocks, NewBlock(db.head_block_id, 1, <<>>, fail, 1)),
                       Len(blocks) + 1)

\* the hardforks set_hardfork is called with: below, at and above hardfork 0.5
HardforkTargets == {MaxHardfork - 4, MaxHardfork - 2, MaxHardfork}

\* set_hardfork called from outside
SetHardfork ==
    \E hardfork \in HardforkTargets, apply_now \in BOOLEAN :
        Called("set_hardfork", NullId, hardfork, set_hardfork(Chain, hardfork, apply_now))

NextHardfork == PushPlainBlock \/ PopBlock \/ SetHardfork

SpecHardfork == Init /\ [][NextHardfork]_vars

\* ---- hardforks the witnesses vote for -----------------------------------------------

\* the versions the witnesses vote for: a hardfork the binary knows and the
\* version after the last one it knows
VotedVersions == {hardfork_version(MaxHardfork),
                  hardfork_version(STEEMIT_NUM_HARDFORKS) + 1}

\* the tally of the witnesses' hardfork votes: the version and the time the
\* majority votes for become next_hardfork and next_hardfork_time
VoteHardfork ==
    \E version \in VotedVersions, time \in 1..MaxTime :
        Called("vote_hardfork", NullId, version,
               [ok |-> TRUE,
                c |-> [Chain EXCEPT !.db.next_hardfork = version,
                                    !.db.next_hardfork_time = time]])

\* set_hardfork called from outside for the hardforks up to 0.5
SetTimedHardforks ==
    \E apply_now \in BOOLEAN :
        Called("set_hardfork", NullId, STEEMIT_HARDFORK_0_5__54,
               set_hardfork(Chain, STEEMIT_HARDFORK_0_5__54, apply_now))

NextVote == PushPlainBlock \/ SetTimedHardforks \/ VoteHardfork

SpecVote == Init /\ [][NextVote]_vars

\* ---- blocks produced by the node from its pending transactions ------------------

\* the block _generate_block builds for slot slot_num
PendingBlock(slot_num) ==
    NewBlock(db.head_block_id, slot_num,
             IncludePending(HeadState(Chain), pending_tx,
                            db.time + slot_num, <<>>),
             "none", 1)

\* generate_block(when, ...) for the slot slot_num at when; the block is
\* pushed with push_block
GenerateBlock ==
    \E slot_num \in 1..MaxChainSlot :
        /\ Len(blocks) < MaxProduced
        /\ PendingBlock(slot_num) \notin Range(blocks)
        /\ LET bs == Append(blocks, PendingBlock(slot_num))
               r == push_block(bs, ResetPendingSession(Chain), Len(bs))
           IN  /\ blocks' = bs
               /\ Become(r.c)
               /\ last' = [op |-> "generate_block", block |-> Len(bs), trx |-> 0,
                           ret |-> r.ret, path |-> r.path, new_head |-> r.new_head,
                           applied |-> r.applied, reverted |-> r.reverted,
                           bad |-> r.bad, follows |-> FALSE,
                           dropped |-> Range(pending_tx) \ Range(r.c.pending_tx)]

NextProduce == GenerateBlock \/ PushTransaction \/ PopBlock

SpecProduce == Init /\ [][NextProduce]_vars

\* ---- transactions pushed one by one, the one that throws included ----------------

\* push_transaction called from outside with any transaction
PushAnyTransaction ==
    \E trx \in TrxIds \cup {BadTrx} :
        /\ Len(pending_tx) < MaxPending
        /\ Called("push_transaction", NullId, trx, push_transaction(Chain, trx))

NextPending == PushAnyTransaction \/ PushOwnBlock \/ PopBlock

SpecPending == Init /\ [][NextPending]_vars

\* ---- reindex: the store rebuilt from the block log -------------------------------

\* _apply_transaction under skip_transaction_dupe_check | skip_tapos_check:
\* the expiration checks stay, the id is neither looked up nor recorded
ApplyTransactionReplayed(d, trx) ==
    LET now == d.time
        exp == TrxExpiration(trx)
        expired ==
            /\ d.head_block_number > 0
            /\ \/ exp > now + STEEMIT_MAX_TIME_UNTIL_EXPIRATION
               \/ has_hardfork(d, STEEMIT_HARDFORK_0_9) /\ ~(now < exp)
               \/ ~(now <= exp)
    IN  [ok |-> ~expired, db |-> d]

RECURSIVE ApplyTransactionsReplayed(_, _)
\* the transaction loop of _apply_block under the skip flags of reindex
ApplyTransactionsReplayed(d, trxs) ==
    IF trxs = <<>> THEN [ok |-> TRUE, db |-> d]
    ELSE LET r == ApplyTransactionReplayed(d, Head(trxs))
         IN  IF r.ok THEN ApplyTransactionsReplayed(r.db, Tail(trxs)) ELSE r

\* validate_block_header under skip_witness_signature | skip_witness_schedule_check
ValidateHeaderReplayed(d, b) ==
    /\ d.head_block_id = b.previous
    /\ d.time < b.timestamp

\* update_last_irreversible_block under skip_block_log: new value, commit,
\* fork db size
UpdateLastIrreversibleReplayed(bs, c) ==
    LET lib == NewLastIrreversible(c.db)
    IN  SetForkSize(bs,
            [ok |-> TRUE,
             c |-> commit([c EXCEPT !.db.last_irreversible_block_num = lib], lib)])

\* _apply_block under the skip flags of reindex, from update_global_dynamic_data on
UpdateHeadReplayed(bs, c, id, d) ==
    IF ~undo_history_ok(d) THEN [ok |-> FALSE, c |-> [c EXCEPT !.db = d]]
    ELSE EndOfBlock(bs[id], id,
             UpdateLastIrreversibleReplayed(bs,
                 [c EXCEPT !.db = update_signing_witness(d, bs[id])]))

\* _apply_block under the skip flags of reindex, after the transaction loop
AfterTransactionsReplayed(bs, c, id, t) ==
    IF ~t.ok \/ bs[id].fail = "operation"
    THEN [ok |-> FALSE, c |-> [c EXCEPT !.db = t.db]]
    ELSE UpdateHeadReplayed(bs, c, id, update_global_dynamic_data(t.db, bs[id], id))

\* apply_block(block, skip_flags) as reindex calls it: no undo session.
\* Result: [ok, c].
ApplyBlockReplayed(bs, c, id) ==
    IF ~ValidateHeaderReplayed(c.db, bs[id]) THEN [ok |-> FALSE, c |-> c]
    ELSE AfterTransactionsReplayed(bs, [c EXCEPT !.pre_apply[id] = c.db], id,
             ApplyTransactionsReplayed(c.db, bs[id].transactions))

RECURSIVE Replay(_, _, _, _, _)
\* the loop of reindex and the apply_block that follows it: the block read at
\* pos is applied, and the next one is read while its number is not the number
\* of the log's head.  order lists the blocks applied.  Result: [ok, c, order].
Replay(bs, c, pos, last_block_num, order) ==
    LET r == ApplyBlockReplayed(bs, c, c.block_log[pos])
    IN  IF ~r.ok THEN [ok |-> FALSE, c |-> r.c, order |-> order]
        ELSE IF bs[c.block_log[pos]].num # last_block_num
        THEN Replay(bs, r.c, pos + 1, last_block_num, Append(order, c.block_log[pos]))
        ELSE [ok |-> TRUE, c |-> r.c, order |-> Append(order, c.block_log[pos])]

\* wipe(data_dir, shared_mem_dir, false), open(...) and _fork_db.reset(): the
\* pending transactions are dropped, the store is the one init_genesis makes,
\* the block log is kept
Reopened(c) ==
    [c EXCEPT !.db = Genesis, !.undo_stack = <<>>, !.revision = 0,
              !.fork_index = {}, !.fork_head = NullId,
              !.pending_tx = <<>>, !.pending_tx_session = FALSE,
              !.hardfork_times = init_hardforks]

\* the end of reindex: set_revision(head_block_num()) and
\* _fork_db.start_block(*_block_log.head())
EndReindex(r) ==
    IF ~r.ok THEN r
    ELSE [r EXCEPT !.c.revision = r.c.db.head_block_number,
                   !.c.fork_index = {r.c.block_log[Len(r.c.block_log)]},
                   !.c.fork_head = r.c.block_log[Len(r.c.block_log)]]

\* database::reindex.  Result: [ok, c, order].
reindex(bs, c) ==
    IF c.block_log = <<>>
    THEN [ok |-> FALSE, c |-> Reopened(c), order |-> <<>>]
    ELSE EndReindex(Replay(bs, Reopened(c), 1,
                           bs[c.block_log[Len(c.block_log)]].num, <<>>))

\* reindex called from outside
Reindex ==
    LET r == reindex(blocks, Chain)
    IN  /\ blocks' = blocks
        /\ Become(r.c)
        /\ last' = [NoCall EXCEPT !.op = "reindex",
                                  !.ret = IF r.ok THEN "ok" ELSE "throw",
                                  !.applied = Len(r.order)]

\* push_block of a new block built on the store's head by the init witness:
\* with transactions, and at most MaxBadBlocks blocks whose housekeeping throws
PushLoggedBlock ==
    \E trxs \in BlockTransactions, fail \in {"none", "housekeeping"} :
        /\ Len(blocks) < MaxLogged
        /\ NewBlock(db.head_block_id, 1, trxs, fail, 1) \notin Range(blocks)
        /\ fail # "none" =>
             Cardinality({i \in 1..Len(blocks) : blocks[i].fail # "none"}) < MaxBadBlocks
        /\ DoPushBlock(Append(blocks, NewBlock(db.head_block_id, 1, trxs, fail, 1)),
                       Len(blocks) + 1)

NextReindex == PushLoggedBlock \/ PopBlock \/ Reindex

SpecReindex == Init /\ [][NextReindex]_vars

\* ---- supplies: a store with one SBD holder and one escrow -------------------------

\* the chain variables of a node whose blocks are not followed
ChainAtRest ==
    /\ blocks = <<>>
    /\ db = Genesis
    /\ undo_stack = <<>>
    /\ revision = 0
    /\ block_log = <<>>
    /\ fork_index = {}
    /\ fork_head = NullId
    /\ fork_max_size = 1024
    /\ pending_tx = <<>>
    /\ pending_tx_session = FALSE
    /\ popped_tx = <<>>
    /\ producing = FALSE
    /\ hardfork_times = init_hardforks
    /\ pre_apply = [i \in BlockIds |-> NoState]
    /\ last = NoCall

ChainUnchanged ==
    UNCHANGED <<blocks, db, undo_stack, revision, block_log, fork_index, fork_head,
                fork_max_size, pending_tx, pending_tx_session, popped_tx,
                producing, hardfork_times, pre_apply>>

\* the median prices of the feed, the null price included
Prices ==
    {NullPrice} \cup {[base |-> b, quote |-> q] : b \in 1..MaxPriceBase,
                                                 q \in 1..MaxPriceQuote}

\* the store between two blocks: an account that holds SBD, an escrow it sent
\* that waits for ratification, and supplies that add up
SupplyState(sbd, secs, upd, esbd, fee, deadline, approved, median, rate) ==
    update_virtual_supply(
        [kind |-> "supply", time |-> SupplyStart, applied |-> 0,
         balance |-> 0, sbd_balance |-> sbd, sbd_seconds |-> secs,
         sbd_seconds_last_update |-> upd, sbd_last_interest_payment |-> 0,
         escrow |-> [open |-> TRUE, approved |-> approved,
                     ratification_deadline |-> deadline,
                     steem_balance |-> 1, sbd_balance |-> esbd,
                     pending_fee |-> fee],
         current_supply |-> 10, current_sbd_supply |-> sbd + esbd + fee,
         virtual_supply |-> 0, sbd_interest_rate |-> rate, median |-> median])

InitSupply ==
    /\ ChainAtRest
    /\ \E sbd \in 0..MaxSbd, secs \in {0, STEEMIT_SECONDS_PER_YEAR},
          upd \in {0, SupplyStart}, esbd \in 0..MaxSbd, fee \in 0..1,
          deadline \in {SupplyStart + 1, SupplyStart + 2},
          approved \in BOOLEAN, median \in Prices,
          rate \in {STEEMIT_100_PERCENT \div 10, STEEMIT_100_PERCENT} :
            \* SBD is only printed once there is a median price
            /\ median = NullPrice => sbd + esbd + fee = 0
            /\ econ = SupplyState(sbd, secs, upd, esbd, fee, deadline, approved,
                               median, rate)

\* a block is applied
ApplyBlockSupply ==
    /\ econ.applied < MaxSupplyBlocks
    /\ econ' = [apply_block_supply(econ, econ.time + 1) EXCEPT !.applied = @ + 1]
    /\ last' = [NoCall EXCEPT !.op = "apply_block"]
    /\ ChainUnchanged

NextSupply == ApplyBlockSupply

SpecSupply == InitSupply /\ [][NextSupply]_vars

\* ---- comments that are voted on and paid -----------------------------------------

\* comment i answers comment i - 1, or every second comment starts a discussion
CommentParents ==
    {[c \in Comments |-> c - 1],
     [c \in Comments |-> IF c % 2 = 1 THEN 0 ELSE c - 1]}

\* a store that satisfies validate_invariants: every vesting share votes for
\* the witness, the comments have no votes yet
CashoutState(hardfork, parents, dollars, curation, beneficiary) ==
    [kind |-> "cashout", time |-> 1, cashouts |-> 0, votes_cast |-> 0,
     thrown |-> "none",
     processed_hardforks |-> [i \in 1..(hardfork + 1) |-> i - 1],
     balance |-> [a \in Accounts |-> 0],
     sbd_balance |-> [a \in Accounts |-> 0],
     vesting_shares |-> [a \in Accounts |-> 2],
     witness_vote |-> [a \in Accounts |-> TRUE],
     witness_votes |-> 2 * Cardinality(Accounts),
     total_vesting_shares |-> 2 * Cardinality(Accounts),
     total_vesting_fund_steem |-> Cardinality(Accounts),
     current_supply |-> Cardinality(Accounts) + MaxRewardFund,
     current_sbd_supply |-> 0,
     median |-> [base |-> 1, quote |-> 1],
     sbd_print_rate |-> STEEMIT_100_PERCENT,
     total_reward_fund_steem |->
         IF hardfork >= STEEMIT_HARDFORK_0_17 THEN 0 ELSE MaxRewardFund,
     total_reward_shares2 |-> 0,
     reward_funds |->
         [f \in IF hardfork >= STEEMIT_HARDFORK_0_17 - 1 THEN Funds ELSE {} |->
             [recent_rshares2 |-> 0,
              reward_balance |->
                  IF hardfork < STEEMIT_HARDFORK_0_17 THEN 0
                  ELSE IF f = "post" THEN MaxRewardFund - (MaxRewardFund \div 3)
                  ELSE MaxRewardFund \div 3,
              last_update |-> 0]],
     comments |->
         [c \in Comments |->
             [parent |-> parents[c], net_rshares |-> 0, children_rshares2 |-> 0,
              total_vote_weight |-> 0, weight |-> [v \in Range(Voters) |-> 0],
              voted |-> {}, last_payout |-> FALSE,
              percent_steem_dollars |-> dollars,
              beneficiary_weight |-> beneficiary,
              allow_curation_rewards |-> curation]]]

InitCashout ==
    /\ ChainAtRest
    /\ \E hardfork \in (STEEMIT_HARDFORK_0_17 - 2)..STEEMIT_HARDFORK_0_17,
          parents \in CommentParents, dollars \in {0, STEEMIT_100_PERCENT},
          curation \in BOOLEAN, beneficiary \in {0, STEEMIT_100_PERCENT \div 4} :
            \* beneficiaries come with hardfork 17
            /\ beneficiary > 0 => hardfork >= STEEMIT_HARDFORK_0_17
            /\ econ = CashoutState(hardfork, parents, dollars, curation,
                                   beneficiary)

\* vote_evaluator: a voter votes once on a comment; the vote earns curation
\* weight until the first payout of the comment
vote(e, c, voter, rshares) ==
    LET com == e.comments[c]
        old_rshares == calculate_vshares(Max(com.net_rshares, 0))
        new_rshares == calculate_vshares(Max(com.net_rshares + rshares, 0))
        w == IF rshares > 0 /\ ~com.last_payout /\ com.allow_curation_rewards
             THEN rshares ELSE 0
        e1 == [e EXCEPT !.comments[c].net_rshares = @ + rshares,
                        !.comments[c].voted = @ \cup {voter},
                        !.comments[c].weight[voter] = w,
                        !.comments[c].total_vote_weight = @ + w,
                        !.votes_cast = @ + 1, !.thrown = "none"]
    IN  IF has_hardfork(e, STEEMIT_HARDFORK_0_17) THEN e1
        ELSE adjust_rshares2(e1, c, old_rshares, new_rshares)

VoteComment ==
    /\ econ.votes_cast < MaxVotes
    /\ \E c \in Comments, voter \in Range(Voters),
          rshares \in {-1} \cup (1..MaxRshares) :
            /\ voter \notin econ.comments[c].voted
            /\ econ' = vote(econ, c, voter, rshares)
    /\ last' = [NoCall EXCEPT !.op = "vote"]
    /\ ChainUnchanged

\* a block whose time is the cashout time of some comments: the roots of
\* discussions before hardfork 17, any comments from it on; a block that
\* throws leaves the store as it was
ProcessCommentCashout ==
    /\ econ.cashouts < MaxCashouts
    /\ \E due \in (SUBSET Comments) \ {{}} :
            /\ ~has_hardfork(econ, STEEMIT_HARDFORK_0_17)
                 => \A c \in due : econ.comments[c].parent = 0
            /\ LET e == [econ EXCEPT !.time = @ + 1, !.cashouts = @ + 1,
                                     !.thrown = "none"]
                   r == process_comment_cashout(e, due)
               IN  econ' = IF r.thrown = "none" THEN r
                           ELSE [e EXCEPT !.thrown = r.thrown]
    /\ last' = [NoCall EXCEPT !.op = "process_comment_cashout"]
    /\ ChainUnchanged

NextCashout == VoteComment \/ ProcessCommentCashout

SpecCashout == InitCashout /\ [][NextCashout]_vars

\* ---- comments that are paid when their cashout time comes ------------------------

\* the comments whose cashout_time has come
DueComments(e) == {c \in Comments : e.comments[c].cashout_time <= e.time}

\* the first comment of the by_cashout_time index
FirstDue(e) ==
    CHOOSE c \in DueComments(e) :
        \A d \in DueComments(e) :
            \/ e.comments[c].cashout_time < e.comments[d].cashout_time
            \/ /\ e.comments[c].cashout_time = e.comments[d].cashout_time
               /\ c <= d

\* cashout_comment_helper marks the comment paid; a payout that is never
\* followed by a second one
MarkPaidForGood(e, c) ==
    [e EXCEPT !.comments[c].vote_rshares = 0,
              !.comments[c].cashout_time = time_point_sec_maximum,
              !.comments[c].last_payout_at = e.time]

\* cashout_comment_helper marks the comment paid; a second payout that is due
\* at once
MarkPaidStillDue(e, c) ==
    [e EXCEPT !.comments[c].vote_rshares = 0,
              !.comments[c].cashout_time =
                  IF e.comments[c].last_payout_at = time_point_sec_min
                  THEN e.time ELSE time_point_sec_maximum,
              !.comments[c].last_payout_at = e.time]

\* cashout_comment_helper marks the comment paid: net_rshares and
\* total_vote_weight are set with the payment, then vote_rshares, cashout_time
\* and last_payout
MarkPaid(e, c) ==
    [e EXCEPT !.comments[c].vote_rshares = 0,
              !.comments[c].cashout_time =
                  IF has_hardfork(e, STEEMIT_HARDFORK_0_17)
                  THEN time_point_sec_maximum
                  ELSE IF e.comments[c].parent = 0
                  THEN IF /\ has_hardfork(e, STEEMIT_HARDFORK_0_12)
                          /\ e.comments[c].last_payout_at = time_point_sec_min
                       THEN e.time + STEEMIT_SECOND_CASHOUT_WINDOW
                       ELSE time_point_sec_maximum
                  ELSE @,
              !.comments[c].last_payout_at = e.time]

\* cashout_comment_helper with the cashout time of the comment
PayComment(e, ctx, c) ==
    LET r == cashout_comment_helper(e, ctx, c)
    IN  [e |-> MarkPaid(r.e, c), claimed_reward |-> r.claimed_reward]

RECURSIVE PayDiscussion(_, _, _)
\* process_comment_cashout: the comments of the discussion of the first due
\* comment, before hardfork 17
PayDiscussion(e, funds, cs) ==
    IF cs = <<>> THEN [e |-> e, funds |-> funds]
    ELSE LET r == PayComment(e,
                      [total_reward_shares2 |-> e.total_reward_shares2,
                       total_reward_fund_steem |-> e.total_reward_fund_steem],
                      Head(cs))
         IN  PayDiscussion(
                 [r.e EXCEPT !.total_reward_fund_steem =
                      IF r.claimed_reward > 0 THEN @ - r.claimed_reward ELSE @],
                 IF DOMAIN funds # {} THEN AddRecent(e, funds, Head(cs))
                 ELSE funds,
                 Tail(cs))

\* process_comment_cashout: the comment paid from its reward fund, from
\* hardfork 17 on
PayFromFund(e, funds, c) ==
    LET f == get_reward_fund(e, c)
        r == PayComment(e,
                 [total_reward_shares2 |-> funds[f].recent_rshares2,
                  total_reward_fund_steem |-> funds[f].reward_balance], c)
    IN  [e |-> r.e,
         funds |-> [funds EXCEPT ![f].steem_awarded = @ + r.claimed_reward]]

\* the comments one iteration of the payout loop pays
PaidTogether(e, c) ==
    IF has_hardfork(e, STEEMIT_HARDFORK_0_17) THEN {c}
    ELSE {d \in Comments : RootOf(e, d) = RootOf(e, c)}

\* process_comment_cashout: one iteration of the payout loop
PayFirstDue(e) ==
    LET c == FirstDue(e)
        r == IF has_hardfork(e, STEEMIT_HARDFORK_0_17)
             THEN PayFromFund(e, e.funds, c)
             ELSE PayDiscussion(e, e.funds, InOrder(PaidTogether(e, c)))
    IN  [r.e EXCEPT !.funds = r.funds, !.processed = PaidTogether(e, c),
                    !.cashouts = @ + 1]

\* process_comment_cashout up to its payout loop: nothing before the first
\* cashout time, else the reward funds are decayed and, from hardfork 17 on,
\* take the rshares of the due comments
BeginCashout(e) ==
    IF e.time <= STEEMIT_FIRST_CASHOUT_TIME THEN e
    ELSE [e EXCEPT !.running = TRUE,
                   !.start = <<e>>,
                   !.funds = IF has_hardfork(e, STEEMIT_HARDFORK_0_17)
                             THEN AddAllRecent(e, DecayedFunds(e),
                                               InOrder(DueComments(e)))
                             ELSE DecayedFunds(e)]

\* process_comment_cashout after its payout loop: the reward funds are written
EndCashout(e) ==
    [e EXCEPT !.reward_funds =
                  [f \in DOMAIN e.reward_funds |->
                      [recent_rshares2 |-> e.funds[f].recent_rshares2,
                       reward_balance |-> e.reward_funds[f].reward_balance
                                            - e.funds[f].steem_awarded,
                       last_update |-> e.time]],
              !.running = FALSE, !.funds = <<>>, !.start = <<>>]

\* vote_evaluator with the vote_rshares of the comment
VoteWithRshares(e, c, voter, rshares) ==
    [vote(e, c, voter, rshares)
     EXCEPT !.comments[c].vote_rshares = @ + Max(rshares, 0)]

RECURSIVE VoteAll(_, _, _)
\* the first voter votes on the comments
VoteAll(e, cs, rshares) ==
    IF cs = <<>> THEN e
    ELSE VoteAll(VoteWithRshares(e, Head(cs), Voters[1], rshares[Head(cs)]),
                 Tail(cs), rshares)

\* a store whose comments were created and voted on and have never been paid;
\* before hardfork 17 a reply has no cashout time of its own
PayoutState(hardfork, parents, times) ==
    LET base == CashoutState(hardfork, parents, 0, TRUE, 0)
    IN  [kind |-> "payout", time |-> 0, blocks |-> 0, cashouts |-> 0,
         votes_cast |-> 0, thrown |-> "none", running |-> FALSE,
         funds |-> <<>>, start |-> <<>>, processed |-> {},
         processed_hardforks |-> base.processed_hardforks,
         balance |-> base.balance, sbd_balance |-> base.sbd_balance,
         vesting_shares |-> base.vesting_shares,
         witness_vote |-> base.witness_vote,
         witness_votes |-> base.witness_votes,
         total_vesting_shares |-> base.total_vesting_shares,
         total_vesting_fund_steem |-> base.total_vesting_fund_steem,
         current_supply |-> base.current_supply,
         current_sbd_supply |-> base.current_sbd_supply,
         median |-> base.median, sbd_print_rate |-> base.sbd_print_rate,
         total_reward_fund_steem |-> base.total_reward_fund_steem,
         total_reward_shares2 |-> base.total_reward_shares2,
         reward_funds |-> base.reward_funds,
         comments |->
             [c \in Comments |->
                 [parent |-> parents[c], net_rshares |-> 0,
                  children_rshares2 |-> 0, total_vote_weight |-> 0,
                  weight |-> [v \in Range(Voters) |-> 0], voted |-> {},
                  last_payout |-> FALSE, percent_steem_dollars |-> 0,
                  beneficiary_weight |-> 0, allow_curation_rewards |-> TRUE,
                  vote_rshares |-> 0,
                  cashout_time |->
                      IF hardfork >= STEEMIT_HARDFORK_0_17 \/ parents[c] = 0
                      THEN times[c] ELSE time_point_sec_maximum,
                  last_payout_at |-> time_point_sec_min]]]

InitPayout ==
    /\ ChainAtRest
    /\ \E hardfork \in {STEEMIT_HARDFORK_0_12 - 1, STEEMIT_HARDFORK_0_16,
                        STEEMIT_HARDFORK_0_17},
          parents \in CommentParents,
          times \in [Comments -> 2..MaxPayoutBlocks],
          rshares \in [Comments -> {-1, MaxRshares}] :
            econ = [VoteAll(PayoutState(hardfork, parents, times),
                            InOrder(Comments), rshares)
                    EXCEPT !.votes_cast = 0]

\* a vote between two blocks
VotePaidComment ==
    /\ ~econ.running
    /\ econ.votes_cast < MaxPayoutVotes
    /\ \E c \in Comments, rshares \in {-1, MaxRshares} :
            /\ Voters[2] \notin econ.comments[c].voted
            /\ econ' = [VoteWithRshares(econ, c, Voters[2], rshares)
                        EXCEPT !.processed = {}]
    /\ last' = [NoCall EXCEPT !.op = "vote"]
    /\ ChainUnchanged

\* a block reaches process_comment_cashout
StartCashout ==
    /\ ~econ.running
    /\ econ.blocks < MaxPayoutBlocks
    /\ econ' = BeginCashout([econ EXCEPT !.time = @ + 1, !.blocks = @ + 1,
                                         !.thrown = "none", !.processed = {},
                                         !.cashouts = 0])
    /\ last' = [NoCall EXCEPT !.op = "process_comment_cashout"]
    /\ ChainUnchanged

\* an iteration of the payout loop; a block that throws leaves the store as
\* it was
CashoutIteration ==
    /\ econ.running
    /\ DueComments(econ) # {}
    /\ LET r == PayFirstDue(econ)
       IN  econ' = IF r.thrown = "none" THEN r
                   ELSE [econ.start[1] EXCEPT !.thrown = r.thrown]
    /\ last' = [NoCall EXCEPT !.op = "cashout_comment_helper"]
    /\ ChainUnchanged

\* the payout loop ends
FinishCashout ==
    /\ econ.running
    /\ DueComments(econ) = {}
    /\ econ' = [EndCashout(econ) EXCEPT !.processed = {}]
    /\ last' = [NoCall EXCEPT !.op = "end_cashout"]
    /\ ChainUnchanged

NextPayout ==
    VotePaidComment \/ StartCashout \/ CashoutIteration \/ FinishCashout

SpecPayout == InitPayout /\ [][NextPayout]_vars

\* the payout loop is not left halfway: weak fairness of the steps of the
\* loop, one of which is enabled exactly while the loop is running
SpecPayoutFair ==
    SpecPayout /\ ([]<>(~econ.running)
                     \/ []<><<CashoutIteration \/ FinishCashout>>_vars)

\* ---- accounts that withdraw their vesting shares --------------------------------

\* the withdraw routes an account may have set: to each other account none
\* or one, with a quarter, a half or all of the withdrawal
RoutesTo(to_account) ==
    {<<>>} \cup {<<[to_account |-> to_account, percent |-> pc, auto_vest |-> av]>> :
                    pc \in {STEEMIT_100_PERCENT \div 4, STEEMIT_100_PERCENT \div 2,
                            STEEMIT_100_PERCENT},
                    av \in BOOLEAN}

RECURSIVE SumPercent(_)
SumPercent(routes) ==
    IF routes = <<>> THEN 0 ELSE Head(routes).percent + SumPercent(Tail(routes))

\* set_withdraw_vesting_route lets the percents of an account add up to 100%
RouteLists ==
    {r1 \o r2 : r1 \in RoutesTo(Voters[1]), r2 \in RoutesTo(Voters[2])}

\* a store that satisfies validate_invariants: alice withdraws 3 or 4 of her
\* 4 shares at a rate of 2, bob may withdraw his 2 shares at a rate of 1, the
\* witness has the votes of the accounts that vote for it
VestingState(routes, amount, second, fund, voting) ==
    [kind |-> "vesting", time |-> 1, blocks |-> 0, pays |-> 0, thrown |-> "none",
     balance |-> [a \in Accounts |-> 0],
     vesting_shares |-> [a \in Accounts |-> IF a = Author THEN 4 ELSE 2],
     to_withdraw |-> [a \in Accounts |->
                         IF a = Author THEN amount
                         ELSE IF a = Voters[1] /\ second THEN 2 ELSE 0],
     withdrawn |-> [a \in Accounts |-> 0],
     vesting_withdraw_rate |-> [a \in Accounts |->
                                   IF a = Author THEN 2
                                   ELSE IF a = Voters[1] /\ second THEN 1 ELSE 0],
     next_vesting_withdrawal |-> [a \in Accounts |->
                                     IF a = Author THEN 2
                                     ELSE IF a = Voters[1] /\ second THEN 2
                                     ELSE time_point_sec_maximum],
     routes |-> [a \in Accounts |-> IF a = Author THEN routes ELSE <<>>],
     witness_vote |-> [a \in Accounts |-> a \in voting],
     witness_votes |-> 4 * Cardinality(voting \cap {Author})
                         + 2 * Cardinality(voting \ {Author}),
     current_witness |-> Voters[2],
     total_vesting_shares |-> 4 + 2 * Len(Voters),
     total_vesting_fund_steem |-> fund]

InitVesting ==
    /\ ChainAtRest
    /\ \E routes \in RouteLists, amount \in 3..4, second \in BOOLEAN,
          fund \in {4, 7}, voting \in SUBSET Accounts :
            /\ SumPercent(routes) <= STEEMIT_100_PERCENT
            /\ econ = VestingState(routes, amount, second, fund, voting)

\* a block's process_funds
ProcessFunds ==
    /\ econ.pays < MaxWitnessPays
    /\ \E vesting_reward \in 0..1, witness_reward \in 1..MaxWitnessReward :
          LET e == [econ EXCEPT !.pays = @ + 1, !.thrown = "none"]
              r == process_funds(e, vesting_reward, witness_reward)
          IN  econ' = IF r.thrown = "none" THEN r
                      ELSE [e EXCEPT !.thrown = r.thrown]
    /\ last' = [NoCall EXCEPT !.op = "process_funds"]
    /\ ChainUnchanged

\* a block's process_vesting_withdrawals; a block that throws leaves the
\* store as it was
ProcessVestingWithdrawals ==
    /\ econ.blocks < MaxVestingBlocks
    /\ LET e == [econ EXCEPT !.time = @ + 1, !.blocks = @ + 1,
                             !.thrown = "none"]
           r == process_vesting_withdrawals(e)
       IN  econ' = IF r.thrown = "none" THEN r
                   ELSE [e EXCEPT !.thrown = r.thrown]
    /\ last' = [NoCall EXCEPT !.op = "process_vesting_withdrawals"]
    /\ ChainUnchanged

NextVesting == ProcessFunds \/ ProcessVestingWithdrawals

SpecVesting == InitVesting /\ [][NextVesting]_vars

\* the same stores, and those in which alice has 3 shares only, fewer than
\* she withdraws when she withdraws 4
InitInstallments ==
    /\ ChainAtRest
    /\ \E routes \in RouteLists, amount \in 3..4, second \in BOOLEAN,
          fund \in {4, 7}, voting \in SUBSET Accounts, missing \in 0..1 :
            /\ SumPercent(routes) <= STEEMIT_100_PERCENT
            /\ econ = [VestingState(routes, amount, second, fund, voting) EXCEPT
                          !.vesting_shares[Author] = @ - missing,
                          !.total_vesting_shares = @ - missing,
                          !.witness_votes =
                              IF Author \in voting THEN @ - missing ELSE @]

\* a block's process_vesting_withdrawals; a block that throws is not applied:
\* the store and the head block time stay as they were
BlockWithdrawals ==
    /\ econ.blocks < MaxVestingBlocks
    /\ LET e == [econ EXCEPT !.time = @ + 1, !.blocks = @ + 1,
                             !.thrown = "none"]
           r == process_vesting_withdrawals(e)
       IN  econ' = IF r.thrown = "none" THEN r
                   ELSE [econ EXCEPT !.thrown = r.thrown]
    /\ last' = [NoCall EXCEPT !.op = "process_vesting_withdrawals"]
    /\ ChainUnchanged

NextInstallments == ProcessFunds \/ BlockWithdrawals

SpecInstallments == InitInstallments /\ [][NextInstallments]_vars

\* ---- a market of a market-issued asset ---------------------------------------------

\* the prices of USD in CORE that a feed, a match or a settlement may have
MarketPrices ==
    {Price(Asset(b, "USD"), Asset(q, "CORE")) :
        b \in 1..MaxSettlePrice, q \in 1..MaxSettlePrice}

\* alice and bob borrowed the USD there is; bob sells 2 USD, carol asked for
\* the settlement of 2 USD, holds the rest and buys USD with CORE
MarketState(collateral, second, percent, core_percent, max_fee, for_sale) ==
    [kind |-> "market", thrown |-> "none", operations |-> 0, fills |-> <<>>,
     request |-> NullMarketPrice,
     asset |-> [s \in Symbols |->
                   [market_fee_percent |-> IF s = "USD" THEN percent
                                           ELSE core_percent,
                    max_market_fee |-> max_fee, charges_market_fees |-> TRUE,
                    accumulated_fees |-> 0,
                    current_supply |-> IF s = "USD" THEN MaxDebt + second.debt
                                       ELSE 100]],
     settlement_price |-> NullMarketPrice, settlement_fund |-> 0,
     calls |-> [a \in Accounts |->
                   IF a = AccountOrder[1]
                   THEN [open |-> TRUE, debt |-> MaxDebt, collateral |-> collateral]
                   ELSE IF a = AccountOrder[2] /\ second.debt > 0
                   THEN [open |-> TRUE, debt |-> second.debt,
                         collateral |-> second.collateral]
                   ELSE [open |-> FALSE, debt |-> 0, collateral |-> 0]],
     balance |-> [a \in Accounts |->
                     [s \in Symbols |->
                         IF a = AccountOrder[3] /\ s = "USD"
                         THEN MaxDebt + second.debt - 4 ELSE 0]],
     limit |-> [old |-> [open |-> TRUE, seller |-> AccountOrder[2], for_sale |-> 2,
                         sell_price |-> Price(Asset(1, "USD"), Asset(1, "CORE"))],
                new |-> [open |-> TRUE, seller |-> AccountOrder[3],
                         for_sale |-> for_sale,
                         sell_price |-> Price(Asset(1, "CORE"), Asset(1, "USD"))]],
     settle |-> [open |-> TRUE, owner |-> AccountOrder[3], balance |-> 2]]

InitMarket ==
    /\ ChainAtRest
    /\ \E collateral \in {MaxCollateral - 2, MaxCollateral},
          second \in {[debt |-> 0, collateral |-> 0]}
                       \cup {[debt |-> 2, collateral |-> c] : c \in 2..4},
          percent \in {0, STEEMIT_100_PERCENT \div 4, STEEMIT_100_PERCENT \div 2},
          core_percent \in {0, STEEMIT_100_PERCENT \div 2},
          max_fee \in {1, MaxMarketFee}, for_sale \in {1, 2, 4} :
            econ = MarketState(collateral, second, percent, core_percent,
                               max_fee, for_sale)

\* an operation of the market leaves the store as it was when it throws
MarketOperation(op, e, r) ==
    /\ econ' = IF r.thrown = "none" THEN r ELSE [e EXCEPT !.thrown = r.thrown]
    /\ last' = [NoCall EXCEPT !.op = op]
    /\ ChainUnchanged

MarketStart == [econ EXCEPT !.thrown = "none", !.fills = <<>>,
                            !.request = NullMarketPrice, !.operations = @ + 1]

\* apply_order: the new limit order meets the old one at the old one's price
MatchLimitOrders ==
    /\ econ.operations < MaxMarketOps
    /\ econ.limit.new.open /\ econ.limit.old.open
    /\ MarketOperation("match", MarketStart,
                       match_limit(MarketStart, econ.limit.old.sell_price))

\* a force settlement is matched with a call order at the feed price
MatchSettlement ==
    /\ econ.operations < MaxMarketOps
    /\ econ.settle.open
    /\ ~has_settlement(econ)
    /\ \E b \in Accounts, match_price \in MarketPrices,
          max_settlement \in 1..2 :
            /\ econ.calls[b].open
            /\ MarketOperation("match_settle", MarketStart,
                   match_settle(MarketStart, b, match_price, max_settlement))

\* the asset is globally settled at a price: by its issuer, or by a black
\* swan; it is tried again on a settled asset as well
GloballySettleAsset ==
    /\ econ.operations < MaxMarketOps
    /\ \E b \in Accounts : econ.calls[b].open \/ has_settlement(econ)
    /\ \E settlement_price \in MarketPrices :
          MarketOperation("globally_settle_asset",
              [MarketStart EXCEPT !.request = settlement_price],
              globally_settle_asset(
                  [MarketStart EXCEPT !.request = settlement_price],
                  settlement_price))

NextMarket == MatchLimitOrders \/ MatchSettlement \/ GloballySettleAsset

SpecMarket == InitMarket /\ [][NextMarket]_vars

\* ---- an order book of limit orders ---------------------------------------------------

\* the orders that may be created
BookOrders == 1..MaxBookOrders

\* the other asset of the market
OtherSymbol(s) == IF s = "USD" THEN "CORE" ELSE "USD"

\* price > price and price >= price for two prices of the same assets
PriceAbove(p, q) == p.base.amount * q.quote.amount > q.base.amount * p.quote.amount

PriceAtLeast(p, q) == p.base.amount * q.quote.amount >= q.base.amount * p.quote.amount

\* ~price
PriceInverse(p) == Price(p.quote, p.base)

\* limit_order_object::amount_for_sale
amount_for_sale(order) == Asset(order.for_sale, order.sell_price.base.symbol)

\* match(limit_order_object, limit_order_object, price): what the new order
\* and the old order receive
MatchReceives(e, new_order, old_order, match_price) ==
    LET new_order_for_sale == amount_for_sale(e.limit[new_order])
        old_order_for_sale == amount_for_sale(e.limit[old_order])
    IN  IF new_order_for_sale.amount
             <= AssetTimesPrice(old_order_for_sale, match_price).amount
        THEN [new_order |-> AssetTimesPrice(new_order_for_sale, match_price),
              old_order |-> new_order_for_sale]
        ELSE [new_order |-> old_order_for_sale,
              old_order |-> AssetTimesPrice(old_order_for_sale, match_price)]

\* fill_order(limit_order_object) that leaves an order that asks for nothing
\* in the book
FillOrderWithoutCull(e, o, pays, receives) ==
    LET e1 == Filled(adjust_asset_balance(e, e.limit[o].seller, receives),
                     "limit", e.limit[o].seller, receives)
    IN  IF pays.amount = e.limit[o].for_sale
        THEN [e1 EXCEPT !.limit[o].open = FALSE, !.limit[o].for_sale = 0]
        ELSE [e1 EXCEPT !.limit[o].for_sale = @ - pays.amount]

\* cancel_order(limit_order_object): from hardfork 17 on the seller gets back
\* what the order still sells and the fee the order deferred
cancel_book_order(e, o) ==
    LET refunded == amount_for_sale(e.limit[o])
        e1 == adjust_asset_balance(e, e.limit[o].seller, refunded)
        e2 == IF has_hardfork(e, STEEMIT_HARDFORK_0_17)
              THEN adjust_asset_balance(e1, e.limit[o].seller,
                                        e.limit[o].deferred_fee)
              ELSE e1
    IN  [e2 EXCEPT !.limit[o].open = FALSE, !.limit[o].for_sale = 0]

\* fill_order(limit_order_object) of an order of the book
fill_book_order(e, o, pays, receives) ==
    LET e1 == Filled(adjust_asset_balance(e, e.limit[o].seller, receives),
                     "limit", e.limit[o].seller, receives)
        e2 == [e1 EXCEPT !.limit[o].for_sale = @ - pays.amount]
    IN  IF pays = amount_for_sale(e.limit[o])
        THEN [e1 EXCEPT !.limit[o].open = FALSE, !.limit[o].for_sale = 0]
        ELSE IF amount_to_receive(e2.limit[o]).amount = 0
        THEN cancel_book_order(e2, o)
        ELSE e2

\* match(limit_order_object, limit_order_object, price) that takes from the
\* new order all it sells
MatchTakingAll(e, new_order, old_order, match_price) ==
    LET r == MatchReceives(e, new_order, old_order, match_price)
        e1 == fill_book_order(e, new_order, amount_for_sale(e.limit[new_order]),
                              r.new_order)
        e2 == fill_book_order(e1, old_order, r.new_order, r.old_order)
    IN  [e2 EXCEPT !.matches =
            Append(@, [new_order |-> new_order, old_order |-> old_order,
                       match_price |-> match_price,
                       new_order_pays |-> amount_for_sale(e.limit[new_order]),
                       new_order_receives |-> r.new_order,
                       old_order_pays |-> r.new_order,
                       old_order_receives |-> r.old_order,
                       before |-> [limit |-> e.limit, balance |-> e.balance],
                       after |-> [limit |-> e2.limit, balance |-> e2.balance]])]

\* match(limit_order_object, limit_order_object, price): the store afterwards,
\* with the match on record; the result is read from the orders that are
\* left
match(e, new_order, old_order, match_price) ==
    LET r == MatchReceives(e, new_order, old_order, match_price)
        e1 == fill_book_order(e, new_order, r.old_order, r.new_order)
        e2 == fill_book_order(e1, old_order, r.new_order, r.old_order)
    IN  [e2 EXCEPT !.matches =
            Append(@, [new_order |-> new_order, old_order |-> old_order,
                       match_price |-> match_price,
                       new_order_pays |-> r.old_order,
                       new_order_receives |-> r.new_order,
                       old_order_pays |-> r.new_order,
                       old_order_receives |-> r.old_order,
                       before |-> [limit |-> e.limit, balance |-> e.balance],
                       after |-> [limit |-> e2.limit, balance |-> e2.balance]])]

\* apply_order: the open orders of the other side, whatever their price
AnyOpposingOrders(e, new_order) ==
    {o \in BookOrders :
        /\ e.limit[o].open
        /\ e.limit[o].sell_price.base.symbol
             = e.limit[new_order].sell_price.quote.symbol}

\* apply_order: the open orders between lower_bound(max_price.max()) and
\* upper_bound(max_price) of the by_price index
OpposingOrders(e, new_order) ==
    {o \in BookOrders :
        /\ e.limit[o].open
        /\ e.limit[o].sell_price.base.symbol
             = e.limit[new_order].sell_price.quote.symbol
        /\ PriceAtLeast(e.limit[o].sell_price,
                        PriceInverse(e.limit[new_order].sell_price))}

RECURSIVE ByPrice(_, _)
\* orders in the order of the by_price index: the greatest price first, equal
\* prices in the order of the ids
ByPrice(e, orders) ==
    IF orders = {} THEN <<>>
    ELSE LET first ==
                 CHOOSE o \in orders :
                     \A p \in orders :
                         \/ PriceAbove(e.limit[o].sell_price, e.limit[p].sell_price)
                         \/ /\ ~PriceAbove(e.limit[p].sell_price,
                                           e.limit[o].sell_price)
                            /\ o <= p
         IN  <<first>> \o ByPrice(e, orders \ {first})

RECURSIVE MatchWhileOpen(_, _, _)
\* apply_order: the loop over the old orders, left when the new order is filled
MatchWhileOpen(e, new_order, old_orders) ==
    IF old_orders = <<>> \/ ~e.limit[new_order].open THEN e
    ELSE MatchWhileOpen(
             match(e, new_order, Head(old_orders),
                   e.limit[Head(old_orders)].sell_price),
             new_order, Tail(old_orders))

\* apply_order in a market without call orders: check_call_orders returns
\* false for an asset that is not market-issued
apply_order(e, new_order) ==
    LET r == MatchWhileOpen(e, new_order,
                            ByPrice(e, OpposingOrders(e, new_order)))
    IN  [r EXCEPT !.returned = ~r.limit[new_order].open]

\* limit_order_create: the order is created from the balance of its seller,
\* who also pays the fee the order defers, and applied
limit_order_create(e, seller, for_sale, sell_price) ==
    LET id == e.created + 1
        e0 == adjust_asset_balance(e, seller, Asset(0 - e.fee, "CORE"))
        e1 == [adjust_asset_balance(e0, seller,
                   Asset(0 - for_sale, sell_price.base.symbol))
               EXCEPT !.created = id,
                      !.matches = <<>>, !.fills = <<>>,
                      !.limit[id] = [open |-> TRUE, seller |-> seller,
                                     for_sale |-> for_sale,
                                     sell_price |-> sell_price,
                                     deferred_fee |-> Asset(e.fee, "CORE")]]
    IN  apply_order(e1, id)

\* limit_order_create_operation::validate that lets every order pass
AnyOrderIsValid(for_sale, sell_price) == TRUE

\* limit_order_create_operation::validate: the order asks for something in
\* return for what it sells
is_valid_order(for_sale, sell_price) ==
    AssetTimesPrice(Asset(for_sale, sell_price.base.symbol), sell_price).amount > 0

\* the prices an order may have
BookPrices ==
    {Price(Asset(b, s), Asset(q, OtherSymbol(s))) :
        b \in 1..MaxBookAmount, q \in 1..MaxBookAmount, s \in Symbols}

\* the fees an order may defer; before hardfork 17 no order defers a fee
BookFees == {0, 1}

\* the accounts that create the next order: the first order is Author's
BookSellers(e) == IF e.created = 0 THEN {Author} ELSE {Author, Voters[1]}

\* two accounts that hold both assets, and no order yet
BookState(hardfork, fee) ==
    [kind |-> "book", thrown |-> "none", created |-> 0, returned |-> FALSE,
     fee |-> fee,
     processed_hardforks |-> [i \in 1..(hardfork + 1) |-> i - 1],
     matches |-> <<>>, fills |-> <<>>,
     balance |-> [a \in Accounts |->
                     [s \in Symbols |-> MaxBookOrders * (MaxBookAmount + 1)]],
     limit |-> [o \in BookOrders |->
                   [open |-> FALSE, seller |-> Author, for_sale |-> 0,
                    sell_price |-> NullMarketPrice,
                    deferred_fee |-> Asset(0, "CORE")]]]

InitBook ==
    /\ ChainAtRest
    /\ \E hardfork \in {STEEMIT_HARDFORK_0_16, STEEMIT_HARDFORK_0_17},
          fee \in BookFees :
            /\ fee > 0 => hardfork = STEEMIT_HARDFORK_0_17
            /\ econ = BookState(hardfork, fee)

\* a limit order is created; the operation is valid when the order asks for
\* something in return
LimitOrderCreate ==
    /\ econ.created < MaxBookOrders
    /\ \E seller \in BookSellers(econ), for_sale \in 1..MaxBookAmount,
          sell_price \in BookPrices :
            /\ is_valid_order(for_sale, sell_price)
            /\ econ' = limit_order_create(econ, seller, for_sale, sell_price)
    /\ last' = [NoCall EXCEPT !.op = "limit_order_create"]
    /\ ChainUnchanged

NextBook == LimitOrderCreate

SpecBook == InitBook /\ [][NextBook]_vars

\* ---- margin calls ------------------------------------------------------------------

\* GRAPHENE_COLLATERAL_RATIO_DENOM: the ratios of a feed are in thousandths
GRAPHENE_COLLATERAL_RATIO_DENOM == 1000

\* price::call_price(debt, collateral, collateral_ratio)
call_price(debt, collateral, collateral_ratio) ==
    Price(Asset(collateral * GRAPHENE_COLLATERAL_RATIO_DENOM, "CORE"),
          Asset(debt * collateral_ratio, "USD"))

\* price_feed::max_short_squeeze_price
max_short_squeeze_price(feed) ==
    Price(Asset(feed.settlement_price.base.amount * GRAPHENE_COLLATERAL_RATIO_DENOM,
                "USD"),
          Asset(feed.settlement_price.quote.amount * feed.maximum_short_squeeze_ratio,
                "CORE"))

\* call_order_object::collateralization
collateralization(call) == Price(Asset(call.collateral, "CORE"), Asset(call.debt, "USD"))

\* the borrowers of the open call orders in the order of the by_price index
\* of the call orders: the least call price first, equal ones in the order of
\* the ids
CallsByPrice(e) ==
    LET a == AccountOrder[1]
        b == AccountOrder[2]
        open == SelectSeq(<<a, b>>, LAMBDA x : e.calls[x].open)
    IN  IF Len(open) = 2 /\ PriceAbove(e.calls[a].call_price, e.calls[b].call_price)
        THEN <<b, a>> ELSE open

\* the open limit orders that sell the market-issued asset for the asset that
\* backs it, at a price of at least min_price
BidsFrom(e, min_price) ==
    {o \in BookOrders :
        /\ e.limit[o].open
        /\ e.limit[o].sell_price.base.symbol = "USD"
        /\ PriceAtLeast(e.limit[o].sell_price, min_price)}

\* check_for_blackswan with enable_black_swan: whether the asset is settled
\* for good, and the store afterwards
check_for_blackswan(e) ==
    IF has_settlement(e) THEN [e |-> e, swan |-> TRUE]
    ELSE IF e.feed.settlement_price = NullMarketPrice THEN [e |-> e, swan |-> FALSE]
    ELSE IF CallsByPrice(e) = <<>> THEN [e |-> e, swan |-> FALSE]
    ELSE LET bids == ByPrice(e, {o \in BookOrders :
                                    /\ e.limit[o].open
                                    /\ e.limit[o].sell_price.base.symbol = "USD"})
             settle_price == e.feed.settlement_price
             highest == IF bids # <<>>
                           /\ PriceAbove(e.limit[Head(bids)].sell_price, settle_price)
                        THEN e.limit[Head(bids)].sell_price ELSE settle_price
             least_collateral == collateralization(e.calls[Head(CallsByPrice(e))])
         IN  IF PriceAtLeast(PriceInverse(least_collateral), highest)
             THEN [e |-> globally_settle_asset(e, PriceInverse(least_collateral)),
                   swan |-> TRUE]
             ELSE [e |-> e, swan |-> FALSE]

\* what an iterator that points to a removed limit order can do: read what
\* the order held when it was removed, or fail
Dangling == {"stale", "fault"}

\* fill_order(limit_order_object) of an order that was removed, reached
\* through a dangling iterator: the seller is credited, and what was left of
\* the order changes as if it were in the book
FillRemovedOrder(e, order, pays, receives) ==
    LET e1 == Filled(adjust_asset_balance(e, order.seller, receives),
                     "limit", order.seller, receives)
        left == [order EXCEPT !.for_sale = @ - pays.amount]
    IN  IF pays.amount = order.for_sale
        THEN [e |-> e1, order |-> [order EXCEPT !.for_sale = 0]]
        ELSE IF amount_to_receive(left).amount = 0
        THEN [e |-> adjust_asset_balance(
                        IF has_hardfork(e, STEEMIT_HARDFORK_0_17)
                        THEN adjust_asset_balance(e1, order.seller, order.deferred_fee)
                        ELSE e1,
                        order.seller, amount_for_sale(left)),
              order |-> left]
        ELSE [e |-> e1, order |-> left]

\* check_call_orders: what the call order and the limit order pay and receive
MarginCallFill(usd_to_buy, usd_for_sale, match_price) ==
    IF usd_to_buy >= usd_for_sale
    THEN [call_receives |-> Asset(usd_for_sale, "USD"),
          order_receives |-> AssetTimesPrice(Asset(usd_for_sale, "USD"), match_price),
          call_pays |-> AssetTimesPrice(Asset(usd_for_sale, "USD"), match_price),
          order_pays |-> Asset(usd_for_sale, "USD"),
          filled_limit |-> TRUE, filled_call |-> usd_to_buy = usd_for_sale]
    ELSE [call_receives |-> Asset(usd_to_buy, "USD"),
          order_receives |-> AssetTimesPrice(Asset(usd_to_buy, "USD"), match_price),
          call_pays |-> AssetTimesPrice(Asset(usd_to_buy, "USD"), match_price),
          order_pays |-> Asset(usd_to_buy, "USD"),
          filled_limit |-> FALSE, filled_call |-> TRUE]

\* the part of the store a margin call changes
MarginView(e) ==
    [calls |-> e.calls, limit |-> e.limit, balance |-> e.balance,
     current_supply |-> e.asset["USD"].current_supply]

RECURSIVE MarginCalls(_, _, _)
\* check_call_orders: the loop. it.calls and it.bids are the two ranges of
\* the indexes, it.call_itr and it.limit_itr the places of the iterators in
\* them, it.removed is what the order at limit_itr held if it was removed
MarginCalls(e, it, dangling) ==
    LET sw == check_for_blackswan(e)
        done == [e |-> sw.e, returned |-> it.margin_called]
    IN  IF sw.swan \/ it.call_itr > Len(it.calls) THEN done
        ELSE IF it.limit_itr > Len(it.bids) THEN done
        ELSE
        LET o == it.bids[it.limit_itr]
            b == it.calls[it.call_itr]
            is_removed == ~e.limit[o].open
            order == IF is_removed THEN it.removed ELSE e.limit[o]
            match_price == order.sell_price
            usd_for_sale == order.for_sale
            usd_to_buy == e.calls[b].debt
            f == MarginCallFill(usd_to_buy, usd_for_sale, match_price)
            filled_limit == it.filled_limit \/ f.filled_limit
            e1 == fill_order_call(e, b, f.call_pays, f.call_receives)
            ghost == FillRemovedOrder(e1, order, f.order_pays, f.order_receives)
            e2 == IF is_removed THEN ghost.e
                  ELSE fill_book_order(e1, o, f.order_pays, f.order_receives)
            e3 == [e2 EXCEPT !.margin =
                      Append(@, [call |-> b, order |-> o, match_price |-> match_price,
                                 call_pays |-> f.call_pays,
                                 call_receives |-> f.call_receives,
                                 order_pays |-> f.order_pays,
                                 order_receives |-> f.order_receives,
                                 settled |-> has_settlement(e),
                                 before |-> MarginView(e), after |-> MarginView(e2)])]
        IN  IF is_removed /\ dangling = "fault"
            THEN [e |-> [e EXCEPT !.thrown = "dangling iterator"],
                  returned |-> it.margin_called]
            ELSE IF PriceAbove(e.feed.settlement_price,
                               PriceInverse(e.calls[b].call_price))
            THEN done
            ELSE IF PriceAbove(match_price, PriceInverse(e.calls[b].call_price))
            THEN done
            ELSE IF AssetTimesPrice(Asset(usd_to_buy, "USD"), match_price).amount
                      > e.calls[b].collateral
            THEN [e |-> globally_settle_asset(e, e.feed.settlement_price),
                  returned |-> TRUE]
            ELSE MarginCalls(e3,
                     [it EXCEPT !.margin_called = TRUE,
                                !.filled_limit = filled_limit,
                                !.call_itr = IF f.filled_call THEN @ + 1 ELSE @,
                                !.limit_itr = IF filled_limit THEN @ + 1 ELSE @,
                                !.removed =
                                    IF is_removed THEN ghost.order
                                    ELSE [e1.limit[o] EXCEPT
                                             !.for_sale = @ - f.order_pays.amount]],
                     dangling)

\* check_call_orders of the market-issued asset, with enable_black_swan
check_call_orders(e, dangling) ==
    LET sw == check_for_blackswan(e)
        bids == ByPrice(sw.e, BidsFrom(sw.e, max_short_squeeze_price(sw.e.feed)))
    IN  IF sw.swan THEN [e |-> sw.e, returned |-> FALSE]
        ELSE IF e.feed.settlement_price = NullMarketPrice
        THEN [e |-> e, returned |-> FALSE]
        ELSE IF bids = <<>> THEN [e |-> e, returned |-> FALSE]
        ELSE MarginCalls(e, [calls |-> CallsByPrice(e), call_itr |-> 1,
                             bids |-> bids, limit_itr |-> 1,
                             filled_limit |-> FALSE, margin_called |-> FALSE,
                             removed |-> e.limit[Head(bids)]],
                         dangling)

\* update_expired_feeds of the market-issued asset whose feed has expired:
\* the feed gets a new median and the call orders are checked
update_expired_feeds(e, settlement_price, dangling) ==
    check_call_orders([e EXCEPT !.feed.settlement_price = settlement_price],
                      dangling).e

\* the settlement prices of a feed
FeedPrices ==
    {Price(Asset(b, "USD"), Asset(q, "CORE")) : b \in 1..2, q \in 1..2}

\* the prices of the limit orders that sell the market-issued asset
BidPrices ==
    {Price(Asset(b, "USD"), Asset(q, "CORE")) : b \in 1..MaxCallDebt, q \in 1..2}

\* two borrowers with call orders and a third account whose limit orders sell
\* the market-issued asset; the supply of the asset is the debt
CallsState(debts, collaterals, for_sale, prices, ratios) ==
    [kind |-> "calls", thrown |-> "none", updates |-> 0, fills |-> <<>>,
     margin |-> <<>>,
     processed_hardforks |-> [i \in 1..(STEEMIT_HARDFORK_0_17 + 1) |-> i - 1],
     feed |-> [settlement_price |-> NullMarketPrice,
               maintenance_collateral_ratio |-> ratios[1],
               maximum_short_squeeze_ratio |-> ratios[2]],
     asset |-> [s \in Symbols |->
                   [current_supply |-> IF s = "USD" THEN debts[1] + debts[2]
                                       ELSE 100]],
     settlement_price |-> NullMarketPrice, settlement_fund |-> 0,
     calls |-> [a \in Accounts |->
                   IF a = AccountOrder[1] \/ (a = AccountOrder[2] /\ debts[2] > 0)
                   THEN LET i == IF a = AccountOrder[1] THEN 1 ELSE 2
                        IN  [open |-> TRUE, debt |-> debts[i],
                             collateral |-> collaterals[i],
                             call_price |-> call_price(debts[i], collaterals[i],
                                                       ratios[1])]
                   ELSE [open |-> FALSE, debt |-> 0, collateral |-> 0,
                         call_price |-> call_price(1, 1, ratios[1])]],
     balance |-> [a \in Accounts |->
                     [s \in Symbols |->
                         IF a = AccountOrder[3] /\ s = "USD"
                         THEN debts[1] + debts[2] - for_sale[1] - for_sale[2]
                         ELSE 0]],
     limit |-> [o \in BookOrders |->
                   IF o <= 2 /\ for_sale[o] > 0
                   THEN [open |-> TRUE, seller |-> AccountOrder[3],
                         for_sale |-> for_sale[o], sell_price |-> prices[o],
                         deferred_fee |-> Asset(0, "CORE")]
                   ELSE [open |-> FALSE, seller |-> AccountOrder[3], for_sale |-> 0,
                         sell_price |-> NullMarketPrice,
                         deferred_fee |-> Asset(0, "CORE")]]]

InitCalls ==
    /\ ChainAtRest
    /\ \E debts \in (1..MaxCallDebt) \X (0..MaxCallDebt),
          collaterals \in (1..MaxCallDebt) \X (1..MaxCallDebt),
          for_sale \in (1..MaxCallDebt) \X (0..MaxCallDebt),
          prices \in BidPrices \X BidPrices,
          ratios \in {<<1750, 1500>>, <<1001, 1001>>} :
            /\ for_sale[1] + for_sale[2] <= debts[1] + debts[2]
            /\ \A o \in 1..2 :
                  for_sale[o] > 0 => is_valid_order(for_sale[o], prices[o])
            /\ debts[2] = 0 => collaterals[2] = 1
            /\ for_sale[2] = 0 => prices[2] = prices[1]
            /\ econ = CallsState(debts, collaterals, for_sale, prices, ratios)

\* the feed of the market-issued asset has expired and gets a new median
UpdateExpiredFeeds ==
    /\ econ.updates < MaxFeedUpdates
    /\ \E settlement_price \in FeedPrices, dangling \in Dangling :
          MarketOperation("update_expired_feeds",
              [econ EXCEPT !.thrown = "none", !.fills = <<>>, !.margin = <<>>,
                           !.updates = @ + 1],
              update_expired_feeds(
                  [econ EXCEPT !.thrown = "none", !.fills = <<>>, !.margin = <<>>,
                               !.updates = @ + 1],
                  settlement_price, dangling))

NextCalls == UpdateExpiredFeeds

SpecCalls == InitCalls /\ [][NextCalls]_vars

\* ---- the bandwidth of an account -----------------------------------------------------

\* STEEMIT_BANDWIDTH_AVERAGE_WINDOW_SECONDS, scaled
STEEMIT_BANDWIDTH_AVERAGE_WINDOW_SECONDS == 3

\* STEEMIT_BANDWIDTH_PRECISION, scaled
STEEMIT_BANDWIDTH_PRECISION == 2

\* bandwidth_type
BandwidthTypes == {"forum", "market", "old_forum", "old_market"}

\* a call of one of the two functions, for the record
BandwidthCall(e, r, type, trx_size, has_bandwidth) ==
    [r EXCEPT !.calls = Append(@, [type |-> type, trx_size |-> trx_size,
                                   old |-> e.band[type], new |-> r.band[type],
                                   has_bandwidth |-> has_bandwidth,
                                   thrown |-> r.thrown])]

\* old_update_account_bandwidth
old_update_account_bandwidth(e, trx_size, type) ==
    LET delta_time == e.time - e.band[type].last_bandwidth_update
        N == trx_size * STEEMIT_BANDWIDTH_PRECISION
        average ==
            IF delta_time >= STEEMIT_BANDWIDTH_AVERAGE_WINDOW_SECONDS THEN N
            ELSE (e.band[type].average_bandwidth
                    * (STEEMIT_BANDWIDTH_AVERAGE_WINDOW_SECONDS - delta_time)
                  + delta_time * N) \div STEEMIT_BANDWIDTH_AVERAGE_WINDOW_SECONDS
        has_bandwidth == e.effective_vesting_shares * e.max_virtual_bandwidth
                           > average * e.total_vesting_shares
    IN  IF e.total_vesting_shares <= 0 THEN BandwidthCall(e, e, type, trx_size, TRUE)
        ELSE IF e.vesting_shares <= 0
        THEN BandwidthCall(e, [e EXCEPT !.thrown = "no vesting balance"],
                           type, trx_size, FALSE)
        ELSE BandwidthCall(e,
                 [e EXCEPT !.band[type] =
                               [average_bandwidth |-> average,
                                lifetime_bandwidth |-> @.lifetime_bandwidth + N,
                                last_bandwidth_update |-> e.time],
                           !.thrown = IF has_bandwidth THEN "none"
                                      ELSE "bandwidth_exceeded"],
                 type, trx_size, has_bandwidth)

\* update_account_bandwidth, for a store whose is_producing() is is_producing
UpdatedBandwidth(e, trx_size, type, is_producing) ==
    LET trx_bandwidth == trx_size * STEEMIT_BANDWIDTH_PRECISION
        delta_time == e.time - e.band[type].last_bandwidth_update
        new_bandwidth ==
            (IF delta_time > STEEMIT_BANDWIDTH_AVERAGE_WINDOW_SECONDS THEN 0
             ELSE ((STEEMIT_BANDWIDTH_AVERAGE_WINDOW_SECONDS - delta_time)
                     * e.band[type].average_bandwidth)
                    \div STEEMIT_BANDWIDTH_AVERAGE_WINDOW_SECONDS)
              + trx_bandwidth
        has_bandwidth == e.vesting_shares * e.max_virtual_bandwidth
                           > new_bandwidth * e.total_vesting_shares
    IN  IF e.total_vesting_shares <= 0 THEN BandwidthCall(e, e, type, trx_size, TRUE)
        ELSE BandwidthCall(e,
                 [e EXCEPT !.band[type] =
                               [average_bandwidth |-> new_bandwidth,
                                lifetime_bandwidth |->
                                    @.lifetime_bandwidth + trx_bandwidth,
                                last_bandwidth_update |-> e.time],
                           !.thrown = IF is_producing /\ ~has_bandwidth
                                      THEN "bandwidth_exceeded" ELSE "none"],
                 type, trx_size, has_bandwidth)

\* update_account_bandwidth that fails also when no block is produced
UpdateBandwidthAlwaysFailing(e, trx_size, type) ==
    UpdatedBandwidth(e, trx_size, type, TRUE)

\* update_account_bandwidth
update_account_bandwidth(e, trx_size, type) ==
    UpdatedBandwidth(e, trx_size, type, e.is_producing)

\* one function of the two after another, as long as none has thrown
ThenBandwidth(e, old, trx_size, type) ==
    IF e.thrown # "none" THEN e
    ELSE IF old THEN old_update_account_bandwidth(e, trx_size, type)
    ELSE update_account_bandwidth(e, trx_size, type)

\* _apply_transaction: the bandwidth of the account whose authority the
\* transaction requires
AccountBandwidth(e, trx_size, is_market) ==
    LET old == ~has_hardfork(e, STEEMIT_HARDFORK_0_17)
        e1 == IF old THEN ThenBandwidth(e, TRUE, trx_size, "old_forum") ELSE e
        e2 == ThenBandwidth(e1, FALSE, trx_size, "forum")
        e3 == IF is_market /\ old
              THEN ThenBandwidth(e2, TRUE, trx_size, "old_market") ELSE e2
    IN  IF is_market THEN ThenBandwidth(e3, FALSE, trx_size * 10, "market") ELSE e3

\* an account with some stake of the whole, and no bandwidth used yet
BandwidthState(hardfork, stake, received, total) ==
    [kind |-> "bandwidth", thrown |-> "none", trxs |-> 0, time |-> 0,
     is_producing |-> FALSE, is_market |-> FALSE, calls |-> <<>>,
     processed_hardforks |-> [i \in 1..(hardfork + 1) |-> i - 1],
     vesting_shares |-> stake, effective_vesting_shares |-> stake + received,
     total_vesting_shares |-> total, max_virtual_bandwidth |-> 4 * MaxStake,
     band |-> [t \in BandwidthTypes |->
                  [average_bandwidth |-> 0, lifetime_bandwidth |-> 0,
                   last_bandwidth_update |-> 0]]]

InitBandwidth ==
    /\ ChainAtRest
    /\ \E hardfork \in {STEEMIT_HARDFORK_0_16, STEEMIT_HARDFORK_0_17},
          stake \in 0..MaxStake, received \in 0..1, total \in {0, 2 * MaxStake} :
            /\ total = 0 => stake = 0 /\ received = 0
            /\ econ = BandwidthState(hardfork, stake, received, total)

\* a transaction of the account is applied some seconds after the last one;
\* a transaction that throws leaves the bands as they were
TransactionBandwidth(e, trx_size, is_market, delta_time, is_producing) ==
    LET e1 == [e EXCEPT !.thrown = "none", !.calls = <<>>,
                        !.trxs = @ + 1, !.time = @ + delta_time,
                        !.is_producing = is_producing, !.is_market = is_market]
        r == AccountBandwidth(e1, trx_size, is_market)
    IN  IF r.thrown = "none" THEN r
        ELSE [e1 EXCEPT !.thrown = r.thrown, !.calls = r.calls]

\* the seconds between two transactions
BandwidthDelays == 0..(STEEMIT_BANDWIDTH_AVERAGE_WINDOW_SECONDS + 1)

\* push_transaction, which sets the producing flag
PushTransactionBandwidth ==
    /\ econ.trxs < MaxBandwidthTrx
    /\ \E trx_size \in 1..MaxTrxSize, is_market \in BOOLEAN,
          delta_time \in BandwidthDelays :
            econ' = TransactionBandwidth(econ, trx_size, is_market, delta_time, TRUE)
    /\ last' = [NoCall EXCEPT !.op = "push_transaction"]
    /\ ChainUnchanged

\* the transaction is part of a block that is applied
ApplyBlockBandwidth ==
    /\ econ.trxs < MaxBandwidthTrx
    /\ \E trx_size \in 1..MaxTrxSize, is_market \in BOOLEAN,
          delta_time \in BandwidthDelays :
            econ' = TransactionBandwidth(econ, trx_size, is_market, delta_time, FALSE)
    /\ last' = [NoCall EXCEPT !.op = "apply_block"]
    /\ ChainUnchanged

NextBandwidth == PushTransactionBandwidth \/ ApplyBlockBandwidth

SpecBandwidth == InitBandwidth /\ [][NextBandwidth]_vars

\* ---- the balances of the accounts ----------------------------------------------------

BalanceSymbols == {"STEEM", "SBD"}

NoBalanceCall == [op |-> "none"]

\* get_balance(owner name, symbol): zero without a balance record
BalanceOf(e, a, symbol) ==
    IF symbol \in e.records[a] THEN e.balance[a][symbol] ELSE 0

\* adjust_sbd_balance of an account, called after its SBD balance was changed
adjust_sbd_balance_of(e, a) ==
    IF e.sbd_seconds_last_update[a] = e.time THEN e
    ELSE LET sbd_seconds == e.sbd_seconds[a]
                 + e.balance[a]["SBD"] * (e.time - e.sbd_seconds_last_update[a])
             e1 == [e EXCEPT !.sbd_seconds[a] = sbd_seconds,
                             !.sbd_seconds_last_update[a] = e.time]
             interest_paid == SbdInterest(e, sbd_seconds)
         IN  IF sbd_seconds > 0
                /\ e.time - e.sbd_last_interest_payment[a]
                     > STEEMIT_SBD_INTEREST_COMPOUND_INTERVAL_SEC
             THEN [e1 EXCEPT !.balance[a]["SBD"] = @ + interest_paid,
                             !.sbd_seconds[a] = 0,
                             !.sbd_last_interest_payment[a] = e.time,
                             !.current_sbd_supply = @ + interest_paid,
                             !.virtual_supply =
                                 @ + SbdToSteem(interest_paid, e.median)]
             ELSE e1

\* adjust_balance(account, delta); checked is FALSE where the assertions of
\* insufficient balance are left out
AdjustedBalance(e, a, delta, checked) ==
    IF delta.amount = 0 THEN e
    ELSE IF delta.symbol \notin e.records[a]
    THEN IF checked /\ ~(delta.amount > 0)
         THEN [e EXCEPT !.thrown = "Insufficient Balance"]
         ELSE LET created == [e EXCEPT !.records[a] = @ \cup {delta.symbol},
                                       !.balance[a][delta.symbol] = delta.amount]
              IN  IF delta.symbol = "SBD" THEN adjust_sbd_balance_of(created, a)
                  ELSE created
    ELSE IF checked /\ delta.amount < 0
            /\ ~(e.balance[a][delta.symbol] >= -delta.amount)
    THEN [e EXCEPT !.thrown = "Insufficient Balance"]
    ELSE LET modified == [e EXCEPT !.balance[a][delta.symbol] = @ + delta.amount]
         IN  IF delta.symbol = "SBD" THEN adjust_sbd_balance_of(modified, a)
             ELSE modified

AdjustBalanceUnchecked(e, a, delta) == AdjustedBalance(e, a, delta, FALSE)

adjust_account_balance(e, a, delta) == AdjustedBalance(e, a, delta, TRUE)

\* the call of adjust_balance with the store before and after it
AdjustBalanceCall(e, a, delta) ==
    LET r == adjust_account_balance(e, a, delta)
    IN  [r EXCEPT !.call = [op |-> "adjust_balance", account |-> a,
                            delta |-> delta, thrown |-> r.thrown,
                            before |-> e, after |-> r]]

\* adjust_supply(delta) for a STEEM delta that is not positive
adjust_steem_supply(e, delta) ==
    [e EXCEPT !.current_supply = @ + delta, !.virtual_supply = @ + delta]

\* pay_fee(account, fee); get_balance(account object, symbol) needs the
\* balance record
pay_fee(e, a, fee) ==
    IF ~(fee.amount >= 0) THEN [e EXCEPT !.thrown = "fee.amount >= 0"]
    ELSE IF fee.amount = 0 THEN e
    ELSE IF "STEEM" \notin e.records[a] THEN [e EXCEPT !.thrown = "unknown key"]
    ELSE IF ~(e.balance[a]["STEEM"] >= fee.amount)
    THEN [e EXCEPT !.thrown = "get_balance(account, STEEM_SYMBOL) >= fee"]
    ELSE LET r == AdjustBalanceCall(e, a, Asset(-fee.amount, fee.symbol))
         IN  IF r.thrown # "none" THEN r
             ELSE adjust_steem_supply(r, -fee.amount)

\* alice may have a STEEM record and an SBD record, bob has 1 STEEM, carol
\* has no balance record; the supplies are the sums of the balances
BalancesState(steem, sbd, rate) ==
    [kind |-> "balances", time |-> 1, ops |-> 0, thrown |-> "none",
     call |-> NoBalanceCall,
     records |-> [a \in Accounts |->
                     IF a = Author
                     THEN (IF steem >= 0 THEN {"STEEM"} ELSE {})
                            \cup (IF sbd >= 0 THEN {"SBD"} ELSE {})
                     ELSE IF a = Voters[1] THEN {"STEEM"} ELSE {}],
     balance |-> [a \in Accounts |->
                     IF a = Author
                     THEN [STEEM |-> IF steem >= 0 THEN steem ELSE 0,
                           SBD |-> IF sbd >= 0 THEN sbd ELSE 0]
                     ELSE IF a = Voters[1] THEN [STEEM |-> 1, SBD |-> 0]
                     ELSE [STEEM |-> 0, SBD |-> 0]],
     sbd_seconds |-> [a \in Accounts |-> 0],
     sbd_seconds_last_update |-> [a \in Accounts |-> 1],
     sbd_last_interest_payment |-> [a \in Accounts |-> 0],
     sbd_interest_rate |-> rate,
     median |-> [base |-> 1, quote |-> 1],
     current_supply |-> 1 + (IF steem >= 0 THEN steem ELSE 0),
     current_sbd_supply |-> IF sbd >= 0 THEN sbd ELSE 0,
     virtual_supply |-> 1 + (IF steem >= 0 THEN steem ELSE 0)
                          + (IF sbd >= 0 THEN sbd ELSE 0)]

InitBalances ==
    /\ ChainAtRest
    /\ \E steem \in {-1, 0, MaxBalanceDelta}, sbd \in {-1, MaxBalanceDelta},
          rate \in {0, STEEMIT_100_PERCENT} :
            econ = BalancesState(steem, sbd, rate)

\* an operation calls adjust_balance; one that throws leaves the store as it
\* was
AdjustBalance ==
    /\ econ.ops < MaxBalanceOps
    /\ \E a \in Accounts, symbol \in BalanceSymbols,
          amount \in -MaxBalanceDelta..MaxBalanceDelta :
          LET e == [econ EXCEPT !.ops = @ + 1, !.thrown = "none",
                                !.call = NoBalanceCall]
              r == AdjustBalanceCall(e, a, Asset(amount, symbol))
          IN  econ' = IF r.thrown = "none" THEN r
                      ELSE [e EXCEPT !.thrown = r.thrown, !.call = r.call]
    /\ last' = [NoCall EXCEPT !.op = "adjust_balance"]
    /\ ChainUnchanged

\* an operation pays a fee in STEEM
PayFee ==
    /\ econ.ops < MaxBalanceOps
    /\ \E a \in Accounts, amount \in -1..MaxBalanceDelta :
          LET e == [econ EXCEPT !.ops = @ + 1, !.thrown = "none",
                                !.call = NoBalanceCall]
              r == pay_fee(e, a, Asset(amount, "STEEM"))
          IN  econ' = IF r.thrown = "none" THEN r
                      ELSE [e EXCEPT !.thrown = r.thrown, !.call = r.call]
    /\ last' = [NoCall EXCEPT !.op = "pay_fee"]
    /\ ChainUnchanged

\* a block later
BalancesBlock ==
    /\ econ.time < MaxBalanceTime
    /\ econ' = [econ EXCEPT !.time = @ + 1, !.thrown = "none",
                            !.call = NoBalanceCall]
    /\ last' = [NoCall EXCEPT !.op = "apply_block"]
    /\ ChainUnchanged

NextBalances == AdjustBalance \/ PayFee \/ BalancesBlock

SpecBalances == InitBalances /\ [][NextBalances]_vars

\* ---- slot times, in seconds ---------------------------------------------------------

\* unsigned arithmetic of the width of time_point_sec and of a slot number
Uint32(x) == x % (2 ^ TimeBits)

\* the head block's slot time: the genesis time before the first block, the
\* head block time rounded down to the block interval afterwards
HeadSlotTime(e) ==
    IF e.head_block_number = 0 THEN e.time
    ELSE Uint32((e.time \div STEEMIT_BLOCK_INTERVAL) * STEEMIT_BLOCK_INTERVAL)

\* get_slot_time
get_slot_time(e, slot_num) ==
    IF slot_num = 0 THEN 0
    ELSE Uint32(HeadSlotTime(e) + Uint32(slot_num * STEEMIT_BLOCK_INTERVAL))

\* a slot count that starts at 0 at the first slot
SlotAtTimeFromZero(e, when) ==
    IF when < get_slot_time(e, 1) THEN 0
    ELSE (when - get_slot_time(e, 1)) \div STEEMIT_BLOCK_INTERVAL

\* get_slot_at_time, with the times in seconds
get_slot_at_time_sec(e, when) ==
    IF when < get_slot_time(e, 1) THEN 0
    ELSE (when - get_slot_time(e, 1)) \div STEEMIT_BLOCK_INTERVAL + 1

\* a store at genesis or after its first blocks, at any head block time
InitSlot ==
    /\ ChainAtRest
    /\ \E head_block_number \in 0..1, time \in 0..(2 ^ TimeBits - 1) :
          econ = [kind |-> "slot", head_block_number |-> head_block_number,
                  time |-> time, op |-> "none", slot_num |-> 0, when |-> 0,
                  slot_time |-> 0, slot |-> 0]

\* get_slot_time(slot_num), and get_slot_at_time of the time it returns
GetSlotTime ==
    /\ \E slot_num \in 1..(2 ^ TimeBits - 1) :
          econ' = [econ EXCEPT
                      !.op = "get_slot_time", !.slot_num = slot_num,
                      !.slot_time = get_slot_time(econ, slot_num),
                      !.when = get_slot_time(econ, slot_num),
                      !.slot = get_slot_at_time_sec(econ,
                                   get_slot_time(econ, slot_num))]
    /\ last' = [NoCall EXCEPT !.op = "get_slot_time"]
    /\ ChainUnchanged

\* get_slot_at_time(when), and get_slot_time of the slot it returns
GetSlotAtTime ==
    /\ \E when \in 0..(2 ^ TimeBits - 1) :
          econ' = [econ EXCEPT
                      !.op = "get_slot_at_time", !.when = when,
                      !.slot = get_slot_at_time_sec(econ, when),
                      !.slot_num = get_slot_at_time_sec(econ, when),
                      !.slot_time = get_slot_time(econ,
                                        get_slot_at_time_sec(econ, when))]
    /\ last' = [NoCall EXCEPT !.op = "get_slot_at_time"]
    /\ ChainUnchanged

NextSlot == GetSlotTime \/ GetSlotAtTime

SpecSlot == InitSlot /\ [][NextSlot]_vars

\* ---- the funds a block creates ---------------------------------------------------

\* the reward funds in the order of their ids
FundsById == <<"post", "comment">>

\* protocol::calc_percent_reward_per_block: the share of the supply that a
\* yearly rate yields in one block
calc_percent_reward_per_block(apr, supply) ==
    (supply * apr) \div (STEEMIT_100_PERCENT * STEEMIT_BLOCKS_PER_YEAR)

get_content_reward(e) ==
    IF e.head_block_number > STEEMIT_START_VESTING_BLOCK
    THEN Max(calc_percent_reward_per_block(STEEMIT_CONTENT_APR_PERCENT,
                                           e.virtual_supply),
             STEEMIT_MIN_CONTENT_REWARD)
    ELSE 255

get_curation_reward(e) ==
    IF e.head_block_number > STEEMIT_START_VESTING_BLOCK
    THEN Max(calc_percent_reward_per_block(STEEMIT_CURATE_APR_PERCENT,
                                           e.virtual_supply),
             STEEMIT_MIN_CURATE_REWARD)
    ELSE 85

\* get_producer_reward pays the witness, in vesting shares or in STEEM, and
\* returns what it paid
get_producer_reward(e) ==
    LET percent == calc_percent_reward_per_block(STEEMIT_PRODUCER_APR_PERCENT,
                                                 e.virtual_supply)
        pay == IF has_hardfork(e, STEEMIT_HARDFORK_0_16)
               THEN Max(percent, STEEMIT_MIN_PRODUCER_REWARD)
               ELSE Max(percent, STEEMIT_MIN_PRODUCER_REWARD_PRE_HF16)
    IN  [pay |-> pay,
         e |-> IF \/ e.head_block_number >= STEEMIT_START_MINER_VOTING_BLOCK
                  \/ e.vesting_shares[e.current_witness] = 0
               THEN create_vesting(e, e.current_witness, pay)
               ELSE adjust_balance(e, e.current_witness, pay)]

RECURSIVE PayRewardFundsFrom(_, _, _, _)
\* the loop of pay_reward_funds over the reward funds; FC_ASSERT is kept in
\* thrown
PayRewardFundsFrom(e, reward, funds, used_rewards) ==
    IF funds = <<>> THEN [e |-> e, used_rewards |-> used_rewards]
    ELSE LET r == (reward * e.reward_funds[Head(funds)].percent_content_rewards)
                      \div STEEMIT_100_PERCENT
             e1 == [e EXCEPT !.reward_funds[Head(funds)].reward_balance = @ + r]
         IN  IF used_rewards + r > reward
             THEN [e |-> [e1 EXCEPT !.thrown = "pay_reward_funds"],
                   used_rewards |-> used_rewards + r]
             ELSE PayRewardFundsFrom(e1, reward, Tail(funds), used_rewards + r)

\* pay_reward_funds that reports the whole reward as used
PayRewardFundsInFull(e, reward) ==
    [PayRewardFundsFrom(e, reward, FundsById, 0) EXCEPT !.used_rewards = reward]

pay_reward_funds(e, reward) == PayRewardFundsFrom(e, reward, FundsById, 0)

\* the inflation rate of the head block
current_inflation_rate(e) ==
    Max(STEEMIT_INFLATION_RATE_START_PERCENT
            - (e.head_block_number \div STEEMIT_INFLATION_NARROWING_PERIOD),
        STEEMIT_INFLATION_RATE_STOP_PERCENT)

\* the STEEM a block creates from hardfork 16 on, before it is split
NewSteem(e) ==
    (e.virtual_supply * current_inflation_rate(e))
        \div (STEEMIT_100_PERCENT * STEEMIT_BLOCKS_PER_YEAR)

\* the content reward of the block, as it is handed to pay_reward_funds
ContentReward(e) ==
    (NewSteem(e) * STEEMIT_CONTENT_REWARD_PERCENT) \div STEEMIT_100_PERCENT

\* the weight of the schedule of the current witness; a witness of an unknown
\* schedule is logged and its reward is not weighted
ScheduleWeight(e) ==
    CASE e.schedule = "timeshare" -> e.timeshare_weight
      [] e.schedule = "miner" -> e.miner_weight
      [] e.schedule = "top19" -> e.top19_weight
      [] OTHER -> 1

\* process_funds from hardfork 16 on
ProcessFundsByInflation(e) ==
    LET paid == IF has_hardfork(e, STEEMIT_HARDFORK_0_17)
                THEN pay_reward_funds(e, ContentReward(e))
                ELSE [e |-> e, used_rewards |-> ContentReward(e)]
        content_reward == paid.used_rewards
        vesting_reward == (NewSteem(e) * STEEMIT_VESTING_FUND_PERCENT)
                              \div STEEMIT_100_PERCENT
        witness_reward ==
            ((NewSteem(e) - content_reward - vesting_reward)
                 * STEEMIT_MAX_WITNESSES * ScheduleWeight(e))
                \div e.witness_pay_normalization_factor
        new_steem == content_reward + vesting_reward + witness_reward
    IN  IF paid.e.thrown # "none" THEN paid.e
        ELSE create_vesting(
                 [paid.e EXCEPT
                      !.total_vesting_fund_steem = @ + vesting_reward,
                      !.total_reward_fund_steem =
                          IF has_hardfork(e, STEEMIT_HARDFORK_0_17) THEN @
                          ELSE @ + content_reward,
                      !.current_supply = @ + new_steem,
                      !.virtual_supply = @ + new_steem],
                 e.current_witness, witness_reward)

\* process_funds before hardfork 16
ProcessFundsByRate(e) ==
    LET content_reward == get_content_reward(e) + get_curation_reward(e)
        producer == get_producer_reward(e)
        witness_pay == producer.pay
        vesting_reward ==
            IF e.head_block_number < STEEMIT_START_VESTING_BLOCK THEN 0
            ELSE (content_reward + witness_pay) * 9
    IN  [producer.e EXCEPT
             !.total_vesting_fund_steem = @ + vesting_reward,
             !.total_reward_fund_steem = @ + content_reward,
             !.current_supply = @ + content_reward + witness_pay + vesting_reward,
             !.virtual_supply = @ + content_reward + witness_pay + vesting_reward]

\* process_funds with the supplies and the reward pools, before and after
\* hardforks 16 and 17
process_block_funds(e) ==
    IF has_hardfork(e, STEEMIT_HARDFORK_0_16) THEN ProcessFundsByInflation(e)
    ELSE ProcessFundsByRate(e)

\* apply_hardfork for hardforks 16 and 17: the reward funds are created, then
\* they take over the reward pool
ApplyHardforkToFunds(e, hardfork) ==
    LET e1 == [e EXCEPT !.processed_hardforks = Append(@, hardfork)]
        post == (e.total_reward_fund_steem * STEEMIT_POST_REWARD_FUND_PERCENT)
                    \div STEEMIT_100_PERCENT
    IN  IF hardfork = STEEMIT_HARDFORK_0_16
        THEN [e1 EXCEPT !.reward_funds =
                 [f \in Funds |-> [percent_content_rewards |-> 0,
                                   reward_balance |-> 0]]]
        ELSE IF hardfork = STEEMIT_HARDFORK_0_17
        THEN [e1 EXCEPT !.reward_funds =
                 [f \in Funds |->
                     IF f = "post"
                     THEN [percent_content_rewards |->
                               STEEMIT_POST_REWARD_FUND_PERCENT,
                           reward_balance |-> post]
                     ELSE [percent_content_rewards |->
                               STEEMIT_COMMENT_REWARD_FUND_PERCENT,
                           reward_balance |-> e.total_reward_fund_steem - post]],
                        !.total_reward_fund_steem = 0]
        ELSE e1

RECURSIVE ApplyHardforksToFunds(_, _)
\* the hardforks of a store up to a hardfork, applied in ascending order
ApplyHardforksToFunds(e, hardfork) ==
    IF has_hardfork(e, hardfork) THEN e
    ELSE ApplyHardforksToFunds(
             ApplyHardforkToFunds(e, Len(e.processed_hardforks)), hardfork)

\* a store at hardfork 15 whose supply covers the vesting fund and the reward
\* pool; the schedule has a top19 and a timeshare witness
FundsState(head, supply, shares, schedule) ==
    [kind |-> "funds", head_block_number |-> head, blocks |-> 0,
     thrown |-> "none",
     processed_hardforks |-> [i \in 1..STEEMIT_HARDFORK_0_16 |-> i - 1],
     balance |-> [a \in Accounts |-> 0],
     vesting_shares |-> [a \in Accounts |-> IF a = Voters[2] THEN shares ELSE 2],
     witness_vote |-> [a \in Accounts |-> FALSE],
     witness_votes |-> 0,
     current_witness |-> Voters[2],
     schedule |-> schedule,
     timeshare_weight |-> 2, miner_weight |-> 1, top19_weight |-> 1,
     witness_pay_normalization_factor |-> 3,
     total_vesting_shares |-> 4 + shares,
     total_vesting_fund_steem |-> 7,
     total_reward_fund_steem |-> MaxRewardFund,
     reward_funds |-> [f \in {} |-> [percent_content_rewards |-> 0,
                                     reward_balance |-> 0]],
     current_supply |-> supply,
     virtual_supply |-> supply]

InitFunds ==
    /\ ChainAtRest
    /\ \E hardfork \in (STEEMIT_HARDFORK_0_16 - 1)..STEEMIT_HARDFORK_0_17,
          head \in 0..STEEMIT_START_MINER_VOTING_BLOCK,
          supply \in {50, 130, 5000}, shares \in {0, 2},
          schedule \in {"timeshare", "miner", "top19", "none"} :
            econ = ApplyHardforksToFunds(
                       FundsState(head, supply, shares, schedule), hardfork)

\* a block's update_global_dynamic_data and process_funds; a block that throws
\* leaves the store as it was
ProcessBlockFunds ==
    /\ econ.blocks < MaxFundBlocks
    /\ LET e == [econ EXCEPT !.head_block_number = @ + 1, !.blocks = @ + 1,
                             !.thrown = "none"]
           r == process_block_funds(e)
       IN  econ' = IF r.thrown = "none" THEN r
                   ELSE [e EXCEPT !.thrown = r.thrown]
    /\ last' = [NoCall EXCEPT !.op = "process_funds"]
    /\ ChainUnchanged

\* the next hardfork is applied at the end of a block
ApplyHardforkFunds ==
    /\ ~has_hardfork(econ, STEEMIT_HARDFORK_0_17)
    /\ econ' = ApplyHardforkToFunds(econ, Len(econ.processed_hardforks))
    /\ last' = [NoCall EXCEPT !.op = "apply_hardfork"]
    /\ ChainUnchanged

NextFunds == ProcessBlockFunds \/ ApplyHardforkFunds

SpecFunds == InitFunds /\ [][NextFunds]_vars

\* ---- what the properties speak about ---------------------------------------------

\* the sessions of applied blocks: the undo stack below the pending session
BlockSessions(c) ==
    IF c.pending_tx_session THEN SubSeq(c.undo_stack, 1, Len(c.undo_stack) - 1)
    ELSE c.undo_stack

\* the last call was a push_block whose new fork head does not build on the
\* head the store had when called (head is that head's id)
PushedOffHead(l, bs, head) ==
    /\ l.op = "push_block"
    /\ l.new_head # NullId
    /\ bs[l.new_head].previous # head

\* ---- fork choice -----------------------------------------------------------------

\* C1: when the fork database's new head does not build directly on the current
\* head, the controller switches branches only if the new head's block number
\* is strictly greater than head_block_num; when it is equal or lower the
\* pushed block stays in the fork database, the store's head id and state are
\* unchanged, and push_block returns false.
C1_SwitchOnlyIfHigher ==
    [][PushedOffHead(last', blocks', db.head_block_id)
         => IF blocks'[last'.new_head].num > db.head_block_number
            THEN last'.path = "switch"
            ELSE /\ last'.path = "stay"
                 /\ last'.ret = "false"
                 /\ last'.block \in fork_index'
                 /\ db'.head_block_id = db.head_block_id
                 /\ HeadState(Chain') = HeadState(Chain)]_vars

\* a block of a side branch as high as the head was pushed and only stored
C1_Witness ==
    /\ PushedOffHead(last, blocks, db.head_block_id)
    /\ last.path = "stay"
    /\ last.ret = "false"
    /\ blocks[last.block].num = db.head_block_number
    /\ last.block \in fork_index

\* C2: after a successful fork switch the blocks of the old branch above the
\* common ancestor have been popped and the blocks of the new branch applied in
\* ascending order, the store's head_block_id equals the new fork head's id and
\* the fork database's head id, and push_block returns true.
C2_SwitchReachesForkHead ==
    (last.op = "push_block" /\ last.path = "switch" /\ last.ret # "throw")
        => /\ last.ret = "true"
           /\ db.head_block_id = last.new_head
           /\ fork_head = db.head_block_id
           /\ pre_apply[last.new_head].head_block_id = blocks[last.new_head].previous

\* C3: if applying a block of the new branch fails during a fork switch, then
\* after push_block throws the store's head id and state equal their values
\* before the call, the failing block and every later block of the new branch
\* are gone from the fork database, and the fork database's head is the
\* original head, equal to the store's head, however many blocks of the new
\* branch had applied before the failure.
C3_FailedSwitchRestores ==
    [][(last'.op = "push_block" /\ last'.path = "switch" /\ last'.bad # NullId)
         => /\ last'.ret = "throw"
            /\ HeadState(Chain') = HeadState(Chain)
            /\ db'.head_block_id = db.head_block_id
            /\ \A i \in 1..Len(blocks') :
                   (i = last'.bad \/ blocks'[i].previous = last'.bad)
                       => i \notin fork_index'
            /\ fork_head' = db.head_block_id
            /\ fork_head' = db'.head_block_id]_vars

\* C4: when apply_block throws at any step for a block that extends the head,
\* the store shows no partial application of the block, no undo history was
\* committed, the block log did not grow, and the block's id is removed from
\* the fork database.
C4_FailedBlockLeavesNoTrace ==
    [][(last'.op = "push_block" /\ last'.path = "extend" /\ last'.ret = "throw")
         => /\ HeadState(Chain') = HeadState(Chain)
            /\ BlockSessions(Chain') = BlockSessions(Chain)
            /\ block_log' = block_log
            /\ last'.block \notin fork_index']_vars

\* ---- push then pop ---------------------------------------------------------------

RECURSIVE ChainOf(_, _)
\* the block id and its ancestors
ChainOf(bs, id) ==
    IF id = NullId THEN {} ELSE {id} \cup ChainOf(bs, bs[id].previous)

\* C6: the block log never holds a reversible block: in every reachable state
\* its head number is at most the store's last_irreversible_block_num, its
\* blocks are at heights 1, 2, ... without gaps, and each of them is the block
\* of the main branch at its height.
C6_LogHoldsIrreversibleOnly ==
    /\ Len(block_log) <= HeadState(Chain).last_irreversible_block_num
    /\ \A i \in 1..Len(block_log) :
           /\ blocks[block_log[i]].num = i
           /\ block_log[i] \in ChainOf(blocks, db.head_block_id)

\* ---- irreversibility -------------------------------------------------------------

RECURSIVE InsertSorted(_, _)
InsertSorted(x, q) ==
    IF q = <<>> THEN <<x>>
    ELSE IF x <= Head(q) THEN <<x>> \o q
    ELSE <<Head(q)>> \o InsertSorted(x, Tail(q))

RECURSIVE SortedConfirmed(_, _)
\* last_confirmed_block_num of the first n witnesses, ascending
SortedConfirmed(lcb, n) ==
    IF n = 0 THEN <<>> ELSE InsertSorted(lcb[n - 1], SortedConfirmed(lcb, n - 1))

\* floor((100% - threshold) * n / 100%)
CandidateIndex(n) ==
    ((STEEMIT_100_PERCENT - STEEMIT_IRREVERSIBLE_THRESHOLD) * n)
        \div STEEMIT_100_PERCENT

\* the candidate after a block: n witnesses were scheduled when it was applied,
\* lcb are the confirmations it leaves
Candidate(lcb, n) == SortedConfirmed(lcb, n)[CandidateIndex(n) + 1]

\* the last call applied its block on top of the head
AppliedOnHead(l) == l.op = "push_block" /\ l.path = "extend" /\ l.ret = "false"

\* C7: last_irreversible_block_num never decreases over applied blocks: after
\* each block it equals max(previous value, candidate), and it never exceeds
\* head_block_number.
C7_MaxOfCandidate ==
    [][AppliedOnHead(last')
         => /\ db'.last_irreversible_block_num =
                   Max(db.last_irreversible_block_num,
                       Candidate(db'.last_confirmed_block_num,
                                 db.num_scheduled_witnesses))
            /\ db'.last_irreversible_block_num >= db.last_irreversible_block_num
            /\ db'.last_irreversible_block_num <= db'.head_block_number]_vars

\* C7 as it holds: never decreasing and never above head_block_number; equal to
\* max(previous value, candidate) after a block at or above
\* STEEMIT_START_MINER_VOTING_BLOCK, and below that block equal to
\* head_block_number - STEEMIT_MAX_WITNESSES once that is positive.
C7_Monotonic ==
    [][AppliedOnHead(last')
         => /\ db'.last_irreversible_block_num >= db.last_irreversible_block_num
            /\ db'.last_irreversible_block_num <= db'.head_block_number
            /\ db'.last_irreversible_block_num =
                 IF db'.head_block_number >= STEEMIT_START_MINER_VOTING_BLOCK
                 THEN Max(db.last_irreversible_block_num,
                          Candidate(db'.last_confirmed_block_num,
                                    db.num_scheduled_witnesses))
                 ELSE IF db'.head_block_number > STEEMIT_MAX_WITNESSES
                 THEN db'.head_block_number - STEEMIT_MAX_WITNESSES
                 ELSE db.last_irreversible_block_num]_vars

\* a block above the start of witness voting whose candidate was below the
\* value last_irreversible_block_num already had
C7_Witness ==
    /\ AppliedOnHead(last)
    /\ db.head_block_number >= STEEMIT_START_MINER_VOTING_BLOCK
    /\ pre_apply[last.block].head_block_number = db.head_block_number - 1
    /\ Candidate(db.last_confirmed_block_num,
                 pre_apply[last.block].num_scheduled_witnesses)
           < db.last_irreversible_block_num
    /\ db.last_irreversible_block_num = pre_apply[last.block].last_irreversible_block_num

\* C8: after each applied block the candidate is the element at index
\* floor((100% - STEEMIT_IRREVERSIBLE_THRESHOLD) * N / 100%) of the ascending
\* last_confirmed_block_num of the N scheduled witnesses, so that whenever
\* last_irreversible_block_num is set to L at least N - index scheduled
\* witnesses have last_confirmed_block_num >= L.
C8_CandidateIndex ==
    [][(AppliedOnHead(last')
        /\ db'.last_irreversible_block_num # db.last_irreversible_block_num)
         => /\ db'.last_irreversible_block_num =
                   Candidate(db'.last_confirmed_block_num, db.num_scheduled_witnesses)
            /\ Cardinality({w \in 0..(db.num_scheduled_witnesses - 1) :
                   db'.last_confirmed_block_num[w] >= db'.last_irreversible_block_num})
                 >= db.num_scheduled_witnesses
                      - CandidateIndex(db.num_scheduled_witnesses)]_vars

\* C8 as it holds: the same after each applied block at or above
\* STEEMIT_START_MINER_VOTING_BLOCK.
C8_CandidateIndexOnceVoting ==
    [][(AppliedOnHead(last')
        /\ db'.head_block_number >= STEEMIT_START_MINER_VOTING_BLOCK
        /\ db'.last_irreversible_block_num # db.last_irreversible_block_num)
         => /\ db'.last_irreversible_block_num =
                   Candidate(db'.last_confirmed_block_num, db.num_scheduled_witnesses)
            /\ Cardinality({w \in 0..(db.num_scheduled_witnesses - 1) :
                   db'.last_confirmed_block_num[w] >= db'.last_irreversible_block_num})
                 >= db.num_scheduled_witnesses
                      - CandidateIndex(db.num_scheduled_witnesses)]_vars

\* a block above the start of witness voting, applied under the larger
\* schedule, moved last_irreversible_block_num to a value below the head
C8_Witness ==
    /\ AppliedOnHead(last)
    /\ db.head_block_number >= STEEMIT_START_MINER_VOTING_BLOCK
    /\ pre_apply[last.block].num_scheduled_witnesses = MaxScheduled
    /\ db.last_irreversible_block_num > pre_apply[last.block].last_irreversible_block_num
    /\ db.last_irreversible_block_num < db.head_block_number
    /\ db.last_irreversible_block_num =
           Candidate(db.last_confirmed_block_num, MaxScheduled)

\* ---- pending transactions --------------------------------------------------------

\* the last call was a push_block that made its block the head
BecameHead(l) == l.op = "push_block" /\ l.ret # "throw" /\ l.applied > 0

AppliedBlocks(l, bs, c) ==
    IF l.op # "push_block" THEN {}
    ELSE IF l.path = "extend" THEN (IF l.ret = "false" THEN {l.block} ELSE {})
    ELSE IF l.path = "switch" /\ l.ret = "true" THEN
        {id \in 1..Len(bs) : c[id] # NoState /\ id \in ChainOf(bs, l.new_head)
                              /\ bs[id].num > bs[l.new_head].num - l.applied}
    ELSE {}

\* C11: apply_block accepts a block only if block.previous equals
\* head_block_id, block.timestamp is strictly greater than head_block_time and
\* block.witness is the witness scheduled for slot
\* get_slot_at_time(block.timestamp), that slot being at least 1; so over any
\* sequence of applied blocks head_block_number increases by exactly 1 per
\* block and head_block_time strictly increases.
C11_AcceptsValidHeader ==
    [][/\ \A id \in AppliedBlocks(last', blocks', pre_apply') :
            LET d == pre_apply'[id]
                b == blocks'[id]
                slot_num == (b.timestamp - (d.time + 1)) + 1
            IN  /\ b.previous = d.head_block_id
                /\ b.timestamp > d.time
                /\ slot_num >= 1
                /\ b.witness = (d.current_aslot + slot_num) % d.num_scheduled_witnesses
                /\ b.num = d.head_block_number + 1
       /\ AppliedOnHead(last') =>
            /\ db'.head_block_number = db.head_block_number + 1
            /\ db'.time > db.time
            /\ db'.head_block_id = last'.block]_vars

\* a block was applied on a head that a block with a later timestamp and the
\* same parent was offered to before, a block of a witness that was not
\* scheduled for its slot was offered and refused, and two witnesses are
\* scheduled
C11_Witness ==
    /\ AppliedOnHead(last)
    /\ db.head_block_number = 2
    /\ pre_apply[last.block].num_scheduled_witnesses = MaxHeaderWitness + 1
    /\ \E id \in 1..Len(blocks) :
          /\ id # last.block
          /\ blocks[id].previous = blocks[last.block].previous
          /\ blocks[id].witness # blocks[last.block].witness
          /\ id \notin fork_index

\* ---- duplicate transactions ----------------------------------------------------

\* the transactions of the blocks of the store's chain
ChainTransactions(bs, head) ==
    UNION {Range(bs[id].transactions) : id \in ChainOf(bs, head)}

\* no two blocks of the store's chain carry the same transaction
NoTransactionTwice(bs, head) ==
    \A i, j \in ChainOf(bs, head) :
        i # j => Range(bs[i].transactions) \cap Range(bs[j].transactions) = {}

\* a transaction of the store's chain is recorded or can no longer be applied
NoneForgotten(bs, d) ==
    \A t \in ChainTransactions(bs, d.head_block_id) :
        t \notin d.trx_index => ~_apply_transaction(d, t, FALSE).ok

C13_TaposAgainstEarlierBlocks ==
    [][/\ \A id \in AppliedBlocks(last', blocks', pre_apply') :
            LET d == pre_apply'[id]
                b == blocks'[id]
            IN  /\ d.block_summary[b.num % SummarySize] # id
                /\ \A t \in Range(b.transactions) :
                      d.head_block_number > 0 =>
                          TrxRefBlockPrefix(t)
                              = d.block_summary[TrxRefBlockNum(t)] % PrefixSize
       /\ AppliedOnHead(last') =>
            \A i \in 0..(SummarySize - 1) :
                db'.block_summary[i] =
                    IF i = blocks'[last'.block].num % SummarySize
                    THEN last'.block ELSE db.block_summary[i]]_vars

\* a block above the ring size was applied with a transaction that refers to
\* the entry the block itself goes into, which held an earlier block
C13_Witness ==
    /\ AppliedOnHead(last)
    /\ blocks[last.block].num > SummarySize
    /\ \E t \in Range(blocks[last.block].transactions) :
          /\ TrxRefBlockNum(t) = blocks[last.block].num % SummarySize
          /\ pre_apply[last.block].block_summary[TrxRefBlockNum(t)]
                \notin {NullId, last.block}
    /\ db.block_summary[blocks[last.block].num % SummarySize] = last.block

\* ---- hardforks ---------------------------------------------------------------------

\* q is p with entries added at the end
IsPrefix(p, q) == Len(p) <= Len(q) /\ SubSeq(q, 1, Len(p)) = p

\* C14: hardforks are applied strictly in sequence and at most once each:
\* apply_hardfork(n) succeeds only when last_hardfork = n - 1, in every
\* reachable state processed_hardforks has exactly last_hardfork + 1 entries,
\* so has_hardfork(n) holds iff n <= last_hardfork, and once true it stays
\* true along the applied chain.
C14_HardforksInSequence ==
    [][/\ Len(db'.processed_hardforks) = db'.last_hardfork + 1
       /\ \A n \in 0..(STEEMIT_NUM_HARDFORKS + 1) :
            /\ has_hardfork(db', n) <=> n <= db'.last_hardfork
            /\ apply_hardfork(db', hardfork_times', n).ok => db'.last_hardfork = n - 1
       /\ (AppliedOnHead(last') \/ last'.op = "set_hardfork") =>
            /\ db'.last_hardfork >= db.last_hardfork
            /\ IsPrefix(db.processed_hardforks, db'.processed_hardforks)]_vars

\* a block applied hardfork 0.5 by its time and the block after it applied
\* the voted hardforks above it
C14_Witness ==
    /\ AppliedOnHead(last)
    /\ pre_apply[last.block].last_hardfork = STEEMIT_HARDFORK_0_5__54
    /\ db.last_hardfork > STEEMIT_HARDFORK_0_5__54
    /\ pre_apply[blocks[last.block].previous].last_hardfork = 0

\* ---- block production ----------------------------------------------------------------

\* C15: in generate_block(when, ...) a pending transaction whose expiration
\* is less than or equal to when is dropped and never appears in the produced
\* block.
C15_ExpiredAtWhenDropped ==
    [][last'.op = "generate_block" =>
         \A t \in Range(pending_tx) :
             TrxExpiration(t) <= blocks'[last'.block].timestamp
                 => t \notin Range(blocks'[last'.block].transactions)]_vars

\* C15 as it holds: a pending transaction whose expiration is less than when
\* never appears in the produced block and is no longer pending afterwards; a
\* pending transaction that expires at when is offered to the block like the
\* later ones.
C15_ExpiredBeforeWhenDropped ==
    [][last'.op = "generate_block" =>
         \A t \in Range(pending_tx) :
             /\ TrxExpiration(t) < blocks'[last'.block].timestamp
                  => /\ t \notin Range(blocks'[last'.block].transactions)
                     /\ last'.ret # "throw" => t \notin Range(pending_tx')
             /\ (TrxExpiration(t) >= blocks'[last'.block].timestamp
                 /\ HeadState(Chain).time < TrxExpiration(t)
                 /\ t \notin HeadState(Chain).trx_index
                 /\ Len(pending_tx) = 1)
                  => t \in Range(blocks'[last'.block].transactions)]_vars

\* a block was produced for a slot after the expiration of a pending
\* transaction that the head block time had not reached: the transaction is
\* not in the block, the other pending transaction is
C15_Witness ==
    /\ last.op = "generate_block" /\ last.ret = "false"
    /\ \E t \in last.dropped :
          /\ TrxExpiration(t) < blocks[last.block].timestamp
          /\ TrxExpiration(t) >= pre_apply[last.block].time
          /\ t \notin Range(blocks[last.block].transactions)
    /\ blocks[last.block].transactions # <<>>

\* ---- supplies --------------------------------------------------------------------------

\* C16: after every applied block in which the median feed is valid,
\* virtual_supply equals current_supply + current_sbd_supply x median_feed in
\* the chain's integer price arithmetic, the blocks included in which the
\* refund of an expired escrow, which runs after the last
\* update_virtual_supply call, pays SBD interest.
C16_VirtualSupplyFollowsFeed ==
    (econ.kind = "supply" /\ econ.median # NullPrice)
        => econ.virtual_supply
             = econ.current_supply
               + (econ.current_sbd_supply * econ.median.quote) \div econ.median.base

\* ---- comment cashout ---------------------------------------------------------------

RECURSIVE SumOver(_, _)
\* the sum of a function of numbers over a set of its arguments
SumOver(f, S) ==
    IF S = {} THEN 0
    ELSE LET x == CHOOSE y \in S : TRUE IN f[x] + SumOver(f, S \ {x})

\* the reward pool comments are paid from
RewardPool(e) ==
    IF has_hardfork(e, STEEMIT_HARDFORK_0_17)
    THEN SumOver([f \in DOMAIN e.reward_funds |-> e.reward_funds[f].reward_balance],
                 DOMAIN e.reward_funds)
    ELSE e.total_reward_fund_steem

\* the STEEM of the accounts: liquid, vested, and converted to SBD
DeliveredSteem(e) ==
    SumOver(e.balance, Accounts) + e.total_vesting_fund_steem - e.current_supply

\* validate_invariants, the STEEM supply
SteemSupplyAddsUp(e) ==
    e.current_supply
      = SumOver(e.balance, Accounts) + e.total_vesting_fund_steem
        + e.total_reward_fund_steem
        + SumOver([f \in DOMAIN e.reward_funds |-> e.reward_funds[f].reward_balance],
                  DOMAIN e.reward_funds)

\* C17: a comment cashout conserves STEEM: what process_comment_cashout
\* removes from the reward pool (the reward funds' reward_balance from
\* hardfork 17 on, total_reward_fund_steem before it) is exactly the STEEM
\* value delivered to the author, the curators and the beneficiaries,
\* neither total_reward_fund_steem nor a reward_balance becomes negative, and
\* the supply equation of validate_invariants holds after the step.
C17_CashoutConservesSteem ==
    [][(last'.op = "process_comment_cashout" /\ econ'.thrown = "none")
         => /\ RewardPool(econ) - RewardPool(econ')
                 = DeliveredSteem(econ') - DeliveredSteem(econ)
            /\ econ'.total_reward_fund_steem >= 0
            /\ \A f \in DOMAIN econ'.reward_funds :
                   econ'.reward_funds[f].reward_balance >= 0
            /\ SteemSupplyAddsUp(econ')]_vars

RECURSIVE IsInThread(_, _, _)
\* comment d is comment c or one of its descendants
IsInThread(e, c, d) ==
    \/ d = c
    \/ e.comments[d].parent # 0 /\ IsInThread(e, c, e.comments[d].parent)

\* the rshares2 of the comments of the thread of c that have positive rshares
ThreadRshares2(e, c) ==
    SumOver([d \in Comments |-> calculate_vshares(e.comments[d].net_rshares)],
            {d \in Comments : IsInThread(e, c, d) /\ e.comments[d].net_rshares > 0})

\* C20: before hardfork 17, after any votes and cashouts, children_rshares2
\* of every comment is the sum of calculate_vshares(net_rshares) over the
\* comment and its descendants with positive net_rshares, and the sum of
\* children_rshares2 over the root posts is total_reward_shares2: a cashout
\* takes the paid comment's rshares2 out once and no counter wraps around.
C20_ChildrenRshares2AddUp ==
    (econ.kind = "cashout" /\ ~has_hardfork(econ, STEEMIT_HARDFORK_0_17))
        => /\ \A c \in Comments :
                  econ.comments[c].children_rshares2 = ThreadRshares2(econ, c)
           /\ econ.total_reward_shares2
                = SumOver([c \in Comments |-> econ.comments[c].children_rshares2],
                          {c \in Comments : econ.comments[c].parent = 0})

\* ---- vesting withdrawals ---------------------------------------------------------

\* the accounts that withdraw in the block that was just applied
Withdrawing == {a \in Accounts : econ.next_vesting_withdrawal[a] <= econ.time + 1}

\* the shares route-by-route of a withdrawal of the one account that withdraws
AutoVested(a, to_account) ==
    LET rs == {i \in DOMAIN econ.routes[a] :
                  /\ econ.routes[a][i].auto_vest
                  /\ econ.routes[a][i].to_account = to_account}
    IN  SumOver([i \in DOMAIN econ.routes[a] |->
                    ToDeposit(ToWithdraw(econ, a), econ.routes[a][i])], rs)

\* C18: process_vesting_withdrawals keeps the sum of the accounts'
\* vesting_shares equal to total_vesting_shares; the STEEM that leaves
\* total_vesting_fund_steem is the STEEM credited to liquid balances; and
\* when one account is due, it loses exactly to_withdraw shares, each
\* recipient of an auto-vest route gains exactly the shares deposited to it,
\* and total_vesting_shares drops by exactly the shares converted to STEEM.
C18_WithdrawalsKeepVestingSum ==
    [][(last'.op = "process_vesting_withdrawals" /\ econ'.thrown = "none")
         => /\ SumOver(econ'.vesting_shares, Accounts) = econ'.total_vesting_shares
            /\ econ.total_vesting_fund_steem - econ'.total_vesting_fund_steem
                 = SumOver(econ'.balance, Accounts) - SumOver(econ.balance, Accounts)
            /\ \A a \in Accounts :
                 Withdrawing = {a}
                   => /\ econ'.vesting_shares[a]
                           = econ.vesting_shares[a] - ToWithdraw(econ, a)
                      /\ \A b \in Accounts \ {a} :
                             econ'.vesting_shares[b]
                               = econ.vesting_shares[b] + AutoVested(a, b)
                      /\ econ.total_vesting_shares - econ'.total_vesting_shares
                           = ToWithdraw(econ, a)
                             - SumOver([b \in Accounts |-> AutoVested(a, b)],
                                       Accounts \ {a})]_vars

\* C18 happens: a withdrawal with an auto-vest route and a route that pays
\* STEEM was processed, shares moved and STEEM left the vesting fund
C18_Witness ==
    /\ econ.kind = "vesting"
    /\ last.op = "process_vesting_withdrawals"
    /\ econ.thrown = "none"
    /\ econ.withdrawn[Author] > 0
    /\ econ.vesting_shares[Voters[1]] > 2
    /\ econ.balance[Voters[2]] > 0
    /\ econ.balance[Author] > 0

\* C19: no witness ever has more votes than total_vesting_shares where its
\* votes are adjusted: the assertion of adjust_witness_vote does not fail in
\* the housekeeping of a block (create_vesting, process_vesting_withdrawals),
\* the stores included in which every vesting share votes for the witness.
C19_WitnessVotesWithinTotal ==
    econ.kind = "vesting" => econ.thrown # "adjust_witness_vote"

\* ---- global settlement -------------------------------------------------------------

\* what a call order owes the settlement fund at a price
OwedAt(e, b, settlement_price) ==
    Min((e.calls[b].debt * settlement_price.quote.amount)
            \div settlement_price.base.amount,
        e.calls[b].collateral)

\* C21: globally_settle_asset of a market-issued asset leaves no call order
\* of the asset; every call order paid min(debt x settlement price, its
\* collateral) into the fund and its borrower got the rest of the collateral
\* back; settlement_fund is the collateral gathered, settlement_price is
\* original_supply / collateral_gathered, current_supply is what it was
\* before; and on an asset that is settled already it fails and changes
\* nothing.
C21_GlobalSettlement ==
    [][last'.op = "globally_settle_asset"
         => IF has_settlement(econ)
            THEN /\ econ'.thrown = "has_settlement"
                 /\ econ'.settlement_price = econ.settlement_price
                 /\ econ'.settlement_fund = econ.settlement_fund
                 /\ econ'.balance = econ.balance
                 /\ econ'.asset = econ.asset
            ELSE /\ econ'.thrown = "none"
                 /\ \A b \in Accounts :
                       /\ ~econ'.calls[b].open
                       /\ econ'.balance[b]["CORE"]
                            = econ.balance[b]["CORE"] + econ.calls[b].collateral
                              - OwedAt(econ, b, econ'.request)
                 /\ econ'.settlement_fund
                      = SumOver([b \in Accounts |-> OwedAt(econ, b, econ'.request)],
                                Accounts)
                 /\ econ'.settlement_price
                      = Price(Asset(econ.asset["USD"].current_supply, "USD"),
                              Asset(econ'.settlement_fund, "CORE"))
                 /\ econ'.asset["USD"].current_supply
                      = econ.asset["USD"].current_supply]_vars

\* C21 happens: an asset with two call orders was settled; one borrower got
\* collateral back, the other paid all of its collateral, and a second
\* settlement was refused
C21_Witness ==
    /\ econ.kind = "market"
    /\ last.op = "globally_settle_asset"
    /\ econ.thrown = "has_settlement"
    /\ econ.settlement_fund > 0
    /\ econ.asset["USD"].current_supply > MaxDebt
    /\ econ.balance[AccountOrder[1]]["CORE"] > 0
    /\ econ.balance[AccountOrder[2]]["CORE"] = 0

\* ---- market fees -------------------------------------------------------------------

\* the fee of an amount received in an asset
MarketFee(e, receives) ==
    IF e.asset[receives.symbol].market_fee_percent = 0 THEN 0
    ELSE Min((receives.amount * e.asset[receives.symbol].market_fee_percent)
                 \div STEEMIT_100_PERCENT,
             e.asset[receives.symbol].max_market_fee)

\* the fills of the last operation that pay their receiver
PaidFills(e) ==
    {i \in DOMAIN e.fills : e.fills[i].fill \in {"limit", "settle"}}

\* C22: in every fill of a limit order or a force settlement the receiver is
\* credited what it receives minus the market fee of the received asset,
\* min(floor(amount x market_fee_percent / 100%), max_market_fee), and the
\* asset's accumulated_fees grows by exactly that fee.
C22_FillsPayMarketFee ==
    [][(last'.op \in {"match", "match_settle"} /\ econ'.thrown = "none")
         => /\ \A i \in PaidFills(econ') :
                  LET f == econ'.fills[i]
                  IN  econ'.balance[f.receiver][f.receives.symbol]
                        - econ.balance[f.receiver][f.receives.symbol]
                          = f.receives.amount - MarketFee(econ, f.receives)
            /\ \A s \in Symbols :
                  econ'.asset[s].accumulated_fees - econ.asset[s].accumulated_fees
                    = SumOver([i \in DOMAIN econ'.fills |->
                                  MarketFee(econ, econ'.fills[i].receives)],
                              {i \in PaidFills(econ') :
                                  econ'.fills[i].receives.symbol = s})]_vars

\* C23: reindex applies every block of the block log exactly once, in
\* increasing height order, the first and the final block included (also
\* when the log holds a single block), appends nothing to the block log, and
\* finishes with head_block_num equal to the number of the log's head and the
\* revision equal to head_block_num; on an empty log it fails without
\* applying anything.
C23_ReindexReplaysLog ==
    [][last'.op = "reindex" =>
        IF block_log = <<>>
        THEN /\ last'.ret = "throw"
             /\ reindex(blocks, Chain).order = <<>>
             /\ db' = Genesis
        ELSE /\ last'.ret = "ok"
             /\ reindex(blocks, Chain).order = block_log
             /\ \A i \in 1..Len(block_log) : blocks[block_log[i]].num = i
             /\ block_log' = block_log
             /\ db'.head_block_number = blocks[block_log[Len(block_log)]].num
             /\ revision' = db'.head_block_number]_vars


\* the first slot of the store, as the spec's slot arithmetic gives it
SlotOneTime == get_slot_time(econ, 1)

\* what get_slot_at_time returned is 0 before slot 1 and
\* floor((when - get_slot_time(1)) / interval) + 1 from slot 1 on, and the
\* time of that slot is not after when
SlotAtTimeAsStated ==
    econ.op = "get_slot_at_time" =>
        /\ econ.when < SlotOneTime => econ.slot = 0
        /\ econ.when >= SlotOneTime =>
            /\ econ.slot = (econ.when - SlotOneTime) \div STEEMIT_BLOCK_INTERVAL + 1
            /\ econ.slot_time <= econ.when

\* C24 as stated: get_slot_at_time(t) is 0 before get_slot_time(1) and
\* floor((t - get_slot_time(1)) / interval) + 1 otherwise;
\* get_slot_at_time(get_slot_time(n)) = n for every n >= 1, and
\* get_slot_time(get_slot_at_time(t)) <= t for every t at or after slot 1, at
\* genesis and afterwards.
C24_SlotRoundTripsAnySlot ==
    /\ SlotAtTimeAsStated
    /\ econ.op = "get_slot_time" => econ.slot = econ.slot_num

\* C24: the same, with get_slot_at_time(get_slot_time(n)) = n for the slots
\* n >= 1 whose time head_slot_time + n * interval is a time a time_point_sec
\* can hold.
C24_SlotRoundTrips ==
    /\ SlotAtTimeAsStated
    /\ (/\ econ.op = "get_slot_time"
        /\ HeadSlotTime(econ) + econ.slot_num * STEEMIT_BLOCK_INTERVAL
               < 2 ^ TimeBits)
           => econ.slot = econ.slot_num

\* a slot beyond the first is asked for after genesis, at a head block time
\* between two slots, and its time is one a time_point_sec can hold
C24_Witness ==
    /\ econ.kind = "slot"
    /\ econ.op = "get_slot_time"
    /\ econ.head_block_number > 0
    /\ econ.time % STEEMIT_BLOCK_INTERVAL # 0
    /\ econ.slot_num >= 2
    /\ econ.slot_time = HeadSlotTime(econ) + econ.slot_num * STEEMIT_BLOCK_INTERVAL
    /\ econ.slot = econ.slot_num


\* C25: within _apply_block the irreversibility recomputation, with its store
\* commit and block-log append, comes after the transactions, the
\* dynamic-global-property update, the block-summary entry, the housekeeping
\* loop and the hardfork processing: when the housekeeping or the hardfork
\* processing fails the block, nothing was committed and the block log did
\* not grow.
C25_IrreversibilityComesLast ==
    [][(/\ last'.op = "push_block"
        /\ last'.path = "extend"
        /\ last'.ret = "throw"
        /\ blocks'[last'.block].fail \in {"housekeeping", "hardfork"})
         => /\ block_log' = block_log
            /\ BlockSessions(Chain') = BlockSessions(Chain)]_vars


\* C26: when the evaluation of a transaction fails inside push_transaction,
\* the transaction is not appended to the pending list and every store change
\* it made is undone, while the effects of the pending transactions accepted
\* before remain; the producing flag is false when push_transaction returns
\* or throws.
C26_FailedTransactionLeavesNoTrace ==
    [][last'.op = "push_transaction" =>
        /\ ~producing'
        /\ last'.ret = "throw" =>
            /\ pending_tx' = pending_tx
            /\ db' = db
            /\ HeadState(Chain') = HeadState(Chain)]_vars

\* a transaction whose operation threw after its id was recorded was pushed
\* on top of a pending transaction
C26_Witness ==
    /\ last.op = "push_transaction"
    /\ last.ret = "throw"
    /\ last.trx = BadTrx
    /\ pending_tx # <<>>
    /\ pending_tx_session
    /\ Range(pending_tx) \subseteq db.trx_index
    /\ BadTrx \notin db.trx_index
    /\ ~producing


RECURSIVE ScanPending(_, _, _, _, _)
\* the transactions a scan in pending order includes: the ones that are not
\* expired at when, that keep the running size below maximum_block_size, and
\* that apply on top of the ones included before them
ScanPending(d, trxs, when, size, included) ==
    IF trxs = <<>> THEN included
    ELSE IF /\ ~(TrxExpiration(Head(trxs)) < when)
            /\ size + TrxSize(Head(trxs)) < maximum_block_size
            /\ _apply_transaction(d, Head(trxs), FALSE).ok
    THEN ScanPending(_apply_transaction(d, Head(trxs), FALSE).db, Tail(trxs), when,
                     size + TrxSize(Head(trxs)), Append(included, Head(trxs)))
    ELSE ScanPending(d, Tail(trxs), when, size, included)

\* C27: generate_block scans the pending transactions in pending order and
\* includes a transaction iff it is not expired, adding it keeps the running
\* block size strictly below maximum_block_size, and it applies on top of the
\* transactions already included (a transaction that fails leaves no change
\* behind); the block has previous = head id and timestamp = when, and the
\* push_block that follows accepts it.
C27_GeneratedBlock ==
    [][last'.op = "generate_block" =>
        /\ blocks'[last'.block].transactions
             = ScanPending(HeadState(Chain), pending_tx,
                           blocks'[last'.block].timestamp,
                           max_block_header_size, <<>>)
        /\ blocks'[last'.block].previous = HeadState(Chain).head_block_id
        /\ blocks'[last'.block].timestamp > HeadState(Chain).time
        /\ last'.ret # "throw"
        /\ db'.head_block_id = last'.block \/ HeadState(Chain').head_block_id = last'.block
        /\ HeadState(Chain').time = blocks'[last'.block].timestamp]_vars

\* a block was generated from two pending transactions that both apply, the
\* second of which would have brought the block to maximum_block_size: it is
\* not in the block
C27_Witness ==
    /\ last.op = "generate_block"
    /\ last.ret = "false"
    /\ Len(blocks[last.block].transactions) = 1
    /\ \E t \in TrxIds :
          /\ t \notin Range(blocks[last.block].transactions)
          /\ t \in Range(pending_tx)
          /\ TrxExpiration(t) >= blocks[last.block].timestamp
          /\ total_block_size(blocks[last.block].transactions) + TrxSize(t)
               = maximum_block_size


RECURSIVE AppliedPending(_, _)
\* the store once the transactions trxs are applied to d one after the other
AppliedPending(d, trxs) ==
    IF trxs = <<>> THEN d
    ELSE AppliedPending(_apply_transaction(d, Head(trxs), FALSE).db, Tail(trxs))

\* C28: wherever push_transaction, push_block, generate_block or pop_block
\* begins or ends, the pending list is non-empty only if the pending undo
\* session is valid and holds exactly the effects of the pending
\* transactions; this holds after pop_block too.
C28_PendingUnderSession ==
    pending_tx # <<>> =>
        /\ pending_tx_session
        /\ undo_stack # <<>>
        /\ db = AppliedPending(undo_stack[Len(undo_stack)].old, pending_tx)


\* the voted hardfork is beyond the last hardfork the binary knows
VotedUnknown(d) == d.next_hardfork > hardfork_version(STEEMIT_NUM_HARDFORKS)

\* C29 as stated: process_hardforks applies hardfork last_hardfork + 1 only
\* when its activation time is <= head_block_time (from hardfork 0.5 on only
\* while the version of the last applied hardfork is below the voted
\* next_hardfork), several due hardforks in one block in ascending order, and
\* it throws unknown_hardfork when the voted next_hardfork is beyond the last
\* hardfork the binary knows.
C29_UnknownHardforkThrows ==
    [][/\ AppliedOnHead(last') =>
            \A n \in (db.last_hardfork + 1)..db'.last_hardfork :
                IF n <= STEEMIT_HARDFORK_0_5__54
                THEN hardfork_times[n] <= db'.time
                ELSE /\ db.next_hardfork_time <= db'.time
                     /\ hardfork_version(n) <= db.next_hardfork
       /\ (last'.op = "push_block" /\ VotedUnknown(db))
            => last'.ret = "throw"]_vars

\* C29: the same, where unknown_hardfork is thrown once hardfork 0.5 is
\* applied and the time voted for next_hardfork is reached, and in no other
\* block that is sound otherwise; the loop ends with last_hardfork within the
\* hardforks the binary knows.
C29_DueUnknownHardforkThrows ==
    [][/\ AppliedOnHead(last') =>
            \A n \in (db.last_hardfork + 1)..db'.last_hardfork :
                IF n <= STEEMIT_HARDFORK_0_5__54
                THEN hardfork_times[n] <= db'.time
                ELSE /\ db.next_hardfork_time <= db'.time
                     /\ hardfork_version(n) <= db.next_hardfork
       /\ db'.last_hardfork <= STEEMIT_NUM_HARDFORKS
       /\ (last'.op = "push_block" /\ blocks'[last'.block].fail = "none")
            => (last'.ret = "throw"
                  <=> /\ VotedUnknown(db)
                      /\ has_hardfork(db, STEEMIT_HARDFORK_0_5__54)
                      /\ db.next_hardfork_time
                           <= blocks'[last'.block].timestamp)]_vars

\* a sound block was pushed on a store past hardfork 0.5 whose voted hardfork
\* is unknown and due: the block threw and the store is as it was
C29_Witness ==
    /\ last.op = "push_block"
    /\ last.ret = "throw"
    /\ blocks[last.block].fail = "none"
    /\ VotedUnknown(db)
    /\ has_hardfork(db, STEEMIT_HARDFORK_0_5__54)
    /\ db.last_hardfork < STEEMIT_NUM_HARDFORKS
    /\ db.next_hardfork_time <= blocks[last.block].timestamp
    /\ db.head_block_id = blocks[last.block].previous

\* ---- the funds a block creates ------------------------------------------------------

\* the STEEM of the content reward pools: the pool of the store and the
\* balances of the reward funds
RECURSIVE RewardBalances(_, _)
RewardBalances(e, funds) ==
    IF funds = {} THEN 0
    ELSE LET f == CHOOSE x \in funds : TRUE
         IN  e.reward_funds[f].reward_balance + RewardBalances(e, funds \ {f})

ContentPools(e) ==
    e.total_reward_fund_steem + RewardBalances(e, DOMAIN e.reward_funds)

\* a process_funds that did not throw
FundsProcessed ==
    /\ econ.kind = "funds"
    /\ last'.op = "process_funds"
    /\ econ'.thrown = "none"

PaidNow == econ.kind = "payout" /\ econ.running /\ econ'.running

\* C31 as the specification states it: after a comment is cashed out its
\* net_rshares, vote_rshares and total_vote_weight are zero, its cashout_time
\* is the maximum time and its last_payout is head_block_time, whatever the
\* comment and the hardfork level.
C31_PaidCommentIsReset ==
    [][PaidNow =>
          \A c \in econ'.processed :
              /\ econ'.comments[c].net_rshares = 0
              /\ econ'.comments[c].vote_rshares = 0
              /\ econ'.comments[c].total_vote_weight = 0
              /\ econ'.comments[c].cashout_time = time_point_sec_maximum
              /\ econ'.comments[c].last_payout_at = econ.time]_vars

\* C31, amended: after a comment is cashed out its vote_rshares and
\* total_vote_weight are zero and its last_payout is head_block_time; its
\* net_rshares is zero if it was positive and is kept if it was negative; its
\* cashout_time is the maximum time from hardfork 17 on, and before it a root
\* post gets head_block_time + STEEMIT_SECOND_CASHOUT_WINDOW at its first
\* payout from hardfork 12 on and the maximum time otherwise, while a reply
\* keeps the cashout_time it had.
C31_PaidCommentIsMarked ==
    [][PaidNow =>
          \A c \in econ'.processed :
              LET old == econ.comments[c]
                  new == econ'.comments[c]
              IN  /\ new.net_rshares = IF old.net_rshares > 0 THEN 0
                                       ELSE old.net_rshares
                  /\ new.vote_rshares = 0
                  /\ new.total_vote_weight = 0
                  /\ new.last_payout_at = econ.time
                  /\ new.cashout_time =
                       IF has_hardfork(econ, STEEMIT_HARDFORK_0_17)
                       THEN time_point_sec_maximum
                       ELSE IF old.parent # 0 THEN old.cashout_time
                       ELSE IF /\ has_hardfork(econ, STEEMIT_HARDFORK_0_12)
                               /\ old.last_payout_at = time_point_sec_min
                       THEN econ.time + STEEMIT_SECOND_CASHOUT_WINDOW
                       ELSE time_point_sec_maximum]_vars

\* a root post with negative net_rshares was paid for the first time between
\* hardforks 12 and 17: it keeps its net_rshares and waits for its second
\* payout
C31_Witness ==
    /\ econ.kind = "payout"
    /\ econ.running
    /\ has_hardfork(econ, STEEMIT_HARDFORK_0_12)
    /\ ~has_hardfork(econ, STEEMIT_HARDFORK_0_17)
    /\ \E c \in econ.processed :
          /\ econ.comments[c].parent = 0
          /\ econ.comments[c].net_rshares < 0
          /\ econ.comments[c].vote_rshares = 0
          /\ econ.comments[c].last_payout_at = econ.time
          /\ econ.comments[c].cashout_time
               = econ.time + STEEMIT_SECOND_CASHOUT_WINDOW

\* ---- the payout loop ends --------------------------------------------------------------

\* C39: process_comment_cashout terminates: every comment an iteration of its
\* payout loop processes ends with a cashout_time after head_block_time, the
\* comments that are due become fewer with every iteration, and a loop that
\* has started ends.
C39_CashoutTerminates ==
    /\ [][PaidNow =>
             /\ \A c \in econ'.processed :
                    econ'.comments[c].cashout_time > econ.time
             /\ FirstDue(econ) \in econ'.processed
             /\ DueComments(econ') \subseteq DueComments(econ)
             /\ DueComments(econ') # DueComments(econ)]_vars
    /\ (econ.running ~> ~econ.running)

\* a payout loop has ended after two iterations or more
C39_Witness ==
    /\ econ.kind = "payout"
    /\ last.op = "end_cashout"
    /\ ~econ.running
    /\ econ.thrown = "none"
    /\ econ.cashouts >= 2

\* ---- both sides of a fill receive something ------------------------------------------

\* the matches of the order created last
BookMatches == IF econ.kind = "book" THEN Range(econ.matches) ELSE {}

\* C40: in every fill of a match of two limit orders both orders receive a
\* positive amount: no order pays a positive amount and is credited nothing.
C40_BothSidesReceive ==
    \A m \in BookMatches :
        /\ m.new_order_pays.amount > 0 => m.new_order_receives.amount > 0
        /\ m.old_order_pays.amount > 0 => m.old_order_receives.amount > 0

\* a new order that sells less than one unit of the old order's price asks for
\* is matched
C40_Witness ==
    \E m \in BookMatches :
        /\ m.new_order_pays.amount > 0
        /\ m.old_order_pays.amount > 0
        /\ m.before.limit[m.new_order].for_sale < m.match_price.quote.amount
        /\ m.match_price.quote.amount > m.match_price.base.amount

\* ---- a match conserves assets ---------------------------------------------------------

\* all of an asset that a store holds in balances and in open orders
BookTotal(store, s) ==
    SumOver([a \in Accounts |-> store.balance[a][s]], Accounts)
      + SumOver([o \in BookOrders |->
                    IF store.limit[o].open
                         /\ store.limit[o].sell_price.base.symbol = s
                    THEN store.limit[o].for_sale ELSE 0], BookOrders)

\* a fill took all the order sold and removed it
FilledAndRemoved(m, o, pays) ==
    /\ m.before.limit[o].open
    /\ m.before.limit[o].for_sale = pays.amount
    /\ ~m.after.limit[o].open

\* what an order of a match paid
OrderPays(m, o) == IF o = m.new_order THEN m.new_order_pays ELSE m.old_order_pays

\* an order of a match that was filled in part and then cancelled
CancelledAsDust(m, o) ==
    /\ m.before.limit[o].open
    /\ ~m.after.limit[o].open
    /\ ~FilledAndRemoved(m, o, OrderPays(m, o))

\* the deferred fee a match gives back to the seller of an order: from
\* hardfork 17 on, that of an order it cancelled
FeeRefunded(m, o, s) ==
    IF /\ has_hardfork(econ, STEEMIT_HARDFORK_0_17)
       /\ CancelledAsDust(m, o)
       /\ m.before.limit[o].deferred_fee.symbol = s
    THEN m.before.limit[o].deferred_fee.amount
    ELSE 0

\* the deferred fees a match gives back
FeesRefunded(m, s) ==
    SumOver([o \in BookOrders |-> FeeRefunded(m, o, s)],
            {m.new_order, m.old_order})

\* each order of a match pays what the other receives, and one of the two is
\* filled completely and removed
MatchIsAnExchange(m) ==
    /\ m.new_order_pays = m.old_order_receives
    /\ m.old_order_pays = m.new_order_receives
    /\ \/ FilledAndRemoved(m, m.new_order, m.new_order_pays)
       \/ FilledAndRemoved(m, m.old_order, m.old_order_pays)

\* C32 as the specification states it: of each asset the balances and the
\* open orders together hold as much after a match as before.
C32_MatchKeepsTotals ==
    \A m \in BookMatches :
        /\ MatchIsAnExchange(m)
        /\ \A s \in Symbols : BookTotal(m.after, s) = BookTotal(m.before, s)

\* C32: a match of two limit orders is an exchange: each order pays what the
\* other receives, one of the two is filled completely and removed, and of
\* each asset the balances and the open orders together hold after the match
\* what they held before and the deferred fees the match gave back to the
\* sellers of the orders it cancelled.
C32_MatchConserves ==
    \A m \in BookMatches :
        /\ MatchIsAnExchange(m)
        /\ \A s \in Symbols :
               BookTotal(m.after, s) = BookTotal(m.before, s) + FeesRefunded(m, s)

\* a match filled one order in part and cancelled what was left of it, and
\* gave the seller the deferred fee back
C32_Witness ==
    \E m \in BookMatches :
        \E o \in {m.new_order, m.old_order} :
            /\ CancelledAsDust(m, o)
            /\ FeesRefunded(m, "CORE") > 0
            /\ m.after.balance[m.before.limit[o].seller]
                              [m.before.limit[o].sell_price.base.symbol]
                 > m.before.balance[m.before.limit[o].seller]
                                   [m.before.limit[o].sell_price.base.symbol]

\* ---- an order that asks for nothing is cancelled --------------------------------------

\* what an order of a match received
OrderReceives(m, o) ==
    IF o = m.new_order THEN m.new_order_receives ELSE m.old_order_receives

\* what a match owes an account in an asset: what the account's orders
\* received, what its cancelled orders still sold, and from hardfork 17 on the
\* fees its cancelled orders deferred
OwedByMatch(m, a, s) ==
    SumOver([o \in BookOrders |->
                IF m.before.limit[o].seller = a
                THEN (IF OrderReceives(m, o).symbol = s
                      THEN OrderReceives(m, o).amount ELSE 0)
                     + (IF CancelledAsDust(m, o)
                            /\ m.before.limit[o].sell_price.base.symbol = s
                        THEN m.before.limit[o].for_sale - OrderPays(m, o).amount
                        ELSE 0)
                     + FeeRefunded(m, o, s)
                ELSE 0], {m.new_order, m.old_order})

\* C34: after a fill no open limit order asks for nothing in return: an order
\* whose remainder asks for nothing is cancelled, its seller is credited what
\* the order still sold, and the order counts as filled, so that a new order
\* is matched no further.
C34_NoOrderAsksForNothing ==
    econ.kind = "book" =>
        /\ \A o \in BookOrders :
               econ.limit[o].open => amount_to_receive(econ.limit[o]).amount > 0
        /\ \A i \in 1..Len(econ.matches) :
               LET m == econ.matches[i]
               IN  /\ \A o \in {m.new_order, m.old_order} :
                          /\ m.after.limit[o].open =>
                                amount_to_receive(m.after.limit[o]).amount > 0
                          /\ ~m.after.limit[o].open => m.after.limit[o].for_sale = 0
                   /\ \A a \in Accounts, s \in Symbols :
                          m.after.balance[a][s]
                            = m.before.balance[a][s] + OwedByMatch(m, a, s)
                   /\ i < Len(econ.matches) => m.after.limit[m.new_order].open
                   /\ ~m.after.limit[m.new_order].open => econ.returned

\* what was left of a new order asked for nothing and was cancelled while an
\* order it could have been matched with stayed in the book
C34_Witness ==
    /\ econ.kind = "book"
    /\ econ.returned
    /\ \E i \in 1..Len(econ.matches) :
          /\ CancelledAsDust(econ.matches[i], econ.matches[i].new_order)
          /\ \E o \in BookOrders :
                /\ econ.limit[o].open
                /\ econ.limit[o].sell_price.base.symbol
                     = econ.limit[econ.matches[i].new_order].sell_price.quote.symbol
                /\ PriceAtLeast(econ.limit[o].sell_price,
                       PriceInverse(econ.limit[econ.matches[i].new_order].sell_price))

\* ---- the orders a new order is matched with -------------------------------------------

\* the open orders of a store that sell what an order asks for
OrdersAcross(store, new_order) ==
    {o \in BookOrders :
        /\ store.limit[o].open
        /\ store.limit[o].sell_price.base.symbol
             = store.limit[new_order].sell_price.quote.symbol
        /\ store.limit[o].sell_price.quote.symbol
             = store.limit[new_order].sell_price.base.symbol}

MarginFills == IF econ.kind = "calls" THEN Range(econ.margin) ELSE {}

\* a fill of a margin call takes the call order that comes first, and a limit
\* order of the book that sells within max_short_squeeze_price
TakesFirstCall(m) ==
    /\ m.call = Head(CallsByPrice(m.before))
    /\ m.before.limit[m.order].open
    /\ PriceAtLeast(m.match_price, max_short_squeeze_price(econ.feed))

\* a fill of a margin call takes from the debt of the call order and from the
\* supply what the call order receives, and gives the seller of the limit
\* order collateral worth that at the match price
MovesDebtAndCollateral(m) ==
    /\ m.after.calls[m.call].debt
         = m.before.calls[m.call].debt - m.call_receives.amount
    /\ m.after.current_supply = m.before.current_supply - m.call_receives.amount
    /\ m.call_pays = AssetTimesPrice(m.call_receives, m.match_price)
    /\ m.order_receives = m.call_pays
    /\ m.after.balance[m.before.limit[m.order].seller]["CORE"]
         = m.before.balance[m.before.limit[m.order].seller]["CORE"]
             + m.call_pays.amount
    /\ m.after.calls[m.call].open =>
           m.after.calls[m.call].collateral
             = m.before.calls[m.call].collateral - m.call_pays.amount

\* a call order without debt is removed and the borrower has what was left of
\* the collateral
ClosesPaidCall(m) ==
    /\ m.after.calls[m.call].open <=> m.after.calls[m.call].debt > 0
    /\ ~m.after.calls[m.call].open =>
           /\ m.after.calls[m.call].collateral = 0
           /\ m.after.balance[m.call]["CORE"]
                = m.before.balance[m.call]["CORE"]
                    + m.before.calls[m.call].collateral - m.call_pays.amount

\* a fill of a margin call removes the call order or the limit order
FillsOneCompletely(m) ==
    \/ m.before.calls[m.call].open /\ ~m.after.calls[m.call].open
    \/ /\ m.before.limit[m.order].open
       /\ m.order_pays.amount = m.before.limit[m.order].for_sale
       /\ ~m.after.limit[m.order].open

\* C35: a margin call of check_call_orders takes the call orders the least
\* collateralized first and limit orders within max_short_squeeze_price; each
\* fill takes the same amount from the debt of the call order and from the
\* supply and moves collateral worth that amount at the match price to the
\* seller of the limit order; a call order without debt gets what is left of
\* its collateral and is removed; every iteration removes a call order or a
\* limit order, so that the loop ends; and no margin call is made for an
\* asset that is settled.
C35_MarginCallsFillAndEnd ==
    /\ \A m \in MarginFills :
           /\ TakesFirstCall(m)
           /\ MovesDebtAndCollateral(m)
           /\ ClosesPaidCall(m)
           /\ FillsOneCompletely(m)
           /\ ~m.settled
    /\ econ.kind = "calls" => econ.thrown # "dangling iterator"

\* ---- the bandwidth of a transaction ----------------------------------------------------

\* the calls of update_account_bandwidth of the transaction applied last
BandwidthCalls ==
    IF econ.kind = "bandwidth"
    THEN {c \in Range(econ.calls) : c.type \in {"forum", "market"}}
    ELSE {}

\* the average the claim gives a band
DecayedAverage(c) ==
    LET delta_time == econ.time - c.old.last_bandwidth_update
    IN  IF delta_time <= STEEMIT_BANDWIDTH_AVERAGE_WINDOW_SECONDS
        THEN (c.old.average_bandwidth
                * (STEEMIT_BANDWIDTH_AVERAGE_WINDOW_SECONDS - delta_time))
               \div STEEMIT_BANDWIDTH_AVERAGE_WINDOW_SECONDS
               + c.trx_size * STEEMIT_BANDWIDTH_PRECISION
        ELSE c.trx_size * STEEMIT_BANDWIDTH_PRECISION

\* the account has the stake for an average
WithinBandwidth(average) ==
    econ.vesting_shares * econ.max_virtual_bandwidth
      > average * econ.total_vesting_shares

\* C36 as the specification states it: update_account_bandwidth sets the
\* average and the time of the band, a transaction that is pushed is rejected
\* exactly when the stake of the account is not above the new average, and a
\* transaction of a block that is applied is not rejected.
C36_BandwidthOfEveryTransaction ==
    econ.kind = "bandwidth" /\ econ.trxs > 0 =>
        /\ \A c \in BandwidthCalls :
               /\ c.new.average_bandwidth = DecayedAverage(c)
               /\ c.new.last_bandwidth_update = econ.time
        /\ econ.is_producing =>
               (econ.thrown # "none"
                  <=> \E c \in BandwidthCalls : ~WithinBandwidth(DecayedAverage(c)))
        /\ ~econ.is_producing => econ.thrown = "none"

\* C36: when there are vesting shares at all, update_account_bandwidth sets
\* the average of the band to the decayed old average plus the size of the
\* transaction and the time of the band to head_block_time, and without
\* vesting shares it leaves the band as it is; from hardfork 17 on a
\* transaction that is pushed is rejected exactly when there are vesting
\* shares and the stake of the account is not above the new average of a
\* band, and a transaction of a block that is applied is not rejected;
\* before hardfork 17 a transaction is rejected, pushed or not, also when
\* old_update_account_bandwidth rejects it.
C36_BandwidthWithVestingShares ==
    econ.kind = "bandwidth" /\ econ.trxs > 0 =>
        /\ \A c \in BandwidthCalls :
               IF econ.total_vesting_shares > 0
               THEN /\ c.new.average_bandwidth = DecayedAverage(c)
                    /\ c.new.last_bandwidth_update = econ.time
                    /\ c.has_bandwidth <=> WithinBandwidth(DecayedAverage(c))
               ELSE c.new = c.old /\ c.has_bandwidth
        /\ LET old_rejects == \E c \in Range(econ.calls) :
                                  /\ c.type \in {"old_forum", "old_market"}
                                  /\ c.thrown # "none"
               new_rejects == \E c \in BandwidthCalls : ~c.has_bandwidth
           IN  /\ has_hardfork(econ, STEEMIT_HARDFORK_0_17) => ~old_rejects
               /\ econ.thrown # "none"
                    <=> old_rejects \/ (econ.is_producing /\ new_rejects)

\* a transaction of a block that is applied is accepted although the stake of
\* the account is not above the new average of its band, and a transaction
\* that is pushed is rejected for it
C36_Witness ==
    /\ econ.kind = "bandwidth"
    /\ has_hardfork(econ, STEEMIT_HARDFORK_0_17)
    /\ econ.thrown = "none"
    /\ ~econ.is_producing
    /\ \E c \in BandwidthCalls :
          /\ ~c.has_bandwidth
          /\ c.old.average_bandwidth > 0
          /\ econ.time - c.old.last_bandwidth_update \in
                 1..STEEMIT_BANDWIDTH_AVERAGE_WINDOW_SECONDS
          /\ c.new.average_bandwidth
               > c.trx_size * STEEMIT_BANDWIDTH_PRECISION

\* ---- the installments of a withdrawal --------------------------------------------------

\* what an installment of an account releases at most: the rate, or what is
\* left after the last whole installment
Installment(a) ==
    IF econ.to_withdraw[a] - econ.withdrawn[a] < econ.vesting_withdraw_rate[a]
    THEN econ.to_withdraw[a] % econ.vesting_withdraw_rate[a]
    ELSE econ.vesting_withdraw_rate[a]

\* the shares the auto-vest routes of the accounts that withdraw bring an
\* account
VestsReceived(b) ==
    SumOver([a \in Accounts |-> AutoVested(a, b)], Withdrawing \ {b})

\* the withdrawal of an account is completed in the next state
Completed(a) ==
    /\ econ'.vesting_withdraw_rate[a] = 0
    /\ econ'.next_vesting_withdrawal[a] = time_point_sec_maximum

\* the installment of an account whose withdrawal is due
InstallmentOf(a) ==
    LET released == econ'.withdrawn[a] - econ.withdrawn[a]
    IN  /\ released = Min(econ.vesting_shares[a] + VestsReceived(a),
                          Installment(a))
        /\ econ'.vesting_shares[a]
             = econ.vesting_shares[a] + VestsReceived(a) - released
        /\ IF econ'.withdrawn[a] >= econ.to_withdraw[a]
              \/ econ'.vesting_shares[a] = 0
           THEN Completed(a)
           ELSE /\ econ'.vesting_withdraw_rate[a] = econ.vesting_withdraw_rate[a]
                /\ econ'.next_vesting_withdrawal[a]
                     = econ.next_vesting_withdrawal[a]
                         + STEEMIT_VESTING_WITHDRAW_INTERVAL_SECONDS
        /\ Completed(a) \/ released > 0

\* a block finds withdrawals due
WithdrawalsDue == last'.op = "process_vesting_withdrawals" /\ Withdrawing # {}

\* C37: an installment of an account whose withdrawal is due releases
\* min(vesting_shares, vesting_withdraw_rate) shares, on the last installment
\* what is left, takes them from vesting_shares and adds them to withdrawn,
\* and moves next_vesting_withdrawal on by one interval or, when withdrawn has
\* reached to_withdraw or no shares are left, sets the rate to zero and
\* next_vesting_withdrawal to the maximum; withdrawn never exceeds
\* to_withdraw; and a withdrawal is completed after finitely many
\* installments: every block that finds withdrawals due is applied, and the
\* installment of each completes the withdrawal or raises withdrawn, which
\* to_withdraw bounds.
C37_InstallmentsComplete ==
    [][/\ \A a \in Accounts : econ'.withdrawn[a] <= econ'.to_withdraw[a]
       /\ WithdrawalsDue => /\ econ'.thrown = "none"
                            /\ \A a \in Withdrawing : InstallmentOf(a)]_vars

\* the same of the blocks that are applied
InstallmentsOfAppliedBlocks ==
    [][/\ \A a \in Accounts : econ'.withdrawn[a] <= econ'.to_withdraw[a]
       /\ (WithdrawalsDue /\ econ'.thrown = "none")
            => \A a \in Withdrawing : InstallmentOf(a)]_vars

\* alice's withdrawal is completed with an installment that released the one
\* share she had left, less than the rate, and bob's with a second whole one:
\* a state the blocks reach
InstallmentsCompleted ==
    /\ econ.kind = "vesting"
    /\ last.op = "process_vesting_withdrawals"
    /\ econ.thrown = "none"
    /\ econ.blocks = 2
    /\ econ.to_withdraw[Author] = 4
    /\ econ.withdrawn[Author] = 3
    /\ econ.vesting_shares[Author] = 0
    /\ econ.vesting_withdraw_rate[Author] = 0
    /\ econ.next_vesting_withdrawal[Author] = time_point_sec_maximum
    /\ econ.withdrawn[Voters[1]] = 2
    /\ econ.vesting_withdraw_rate[Voters[1]] = 0

\* ---- the balances of the accounts ----------------------------------------------------

\* the balances, the balance records and the supplies of a store
BalancesAndSupply(e) ==
    [balance |-> e.balance, records |-> e.records,
     current_supply |-> e.current_supply,
     current_sbd_supply |-> e.current_sbd_supply,
     virtual_supply |-> e.virtual_supply]

\* a call of adjust_balance was made, by the operation or by pay_fee
BalanceAdjusted == econ.kind = "balances" /\ econ.call.op = "adjust_balance"

\* the debit the account cannot pay
Overdrawn(c) ==
    /\ c.delta.amount < 0
    /\ \/ c.delta.symbol \notin c.before.records[c.account]
       \/ c.before.balance[c.account][c.delta.symbol] < -c.delta.amount

NoBalanceNegative ==
    \A a \in Accounts, symbol \in BalanceSymbols : econ.balance[a][symbol] >= 0

FailsWhenOverdrawn(c) ==
    Overdrawn(c) =>
        /\ c.thrown = "Insufficient Balance"
        /\ BalancesAndSupply(c.after) = BalancesAndSupply(c.before)

ZeroChangesNothing(c) ==
    c.delta.amount = 0 =>
        /\ c.thrown = "none"
        /\ c.after = c.before

\* the interest the account is paid when its SBD balance is changed by the
\* delta of the call
InterestOf(c) ==
    LET b == c.before
        a == c.account
        sbd_seconds == b.sbd_seconds[a]
            + (BalanceOf(b, a, "SBD") + c.delta.amount)
                * (b.time - b.sbd_seconds_last_update[a])
    IN  IF /\ c.delta.symbol = "SBD"
           /\ b.sbd_seconds_last_update[a] # b.time
           /\ sbd_seconds > 0
           /\ b.time - b.sbd_last_interest_payment[a]
                > STEEMIT_SBD_INTEREST_COMPOUND_INTERVAL_SEC
        THEN ((sbd_seconds \div STEEMIT_SECONDS_PER_YEAR) * b.sbd_interest_rate)
                \div STEEMIT_100_PERCENT
        ELSE 0

\* the balances after a call that changed the balance of the account by
\* delta and by more
BalancesWith(c, more) ==
    [a \in Accounts |-> [symbol \in BalanceSymbols |->
        IF a = c.account /\ symbol = c.delta.symbol
        THEN BalanceOf(c.before, a, symbol) + c.delta.amount + more
        ELSE c.before.balance[a][symbol]]]

\* C38 as stated: no balance is negative; adjust_balance with a negative
\* delta fails with an insufficient-balance error and leaves the balances
\* and the supplies as they were when the account has no record of the asset
\* or less than is debited; a zero delta changes nothing; otherwise the
\* balance of that account in that asset, and no other, changes by delta.
C38_BalanceChangesByDelta ==
    /\ econ.kind = "balances" => NoBalanceNegative
    /\ BalanceAdjusted =>
          LET c == econ.call
          IN  /\ FailsWhenOverdrawn(c)
              /\ ZeroChangesNothing(c)
              /\ (~Overdrawn(c) /\ c.delta.amount # 0) =>
                    /\ c.thrown = "none"
                    /\ c.after.balance = BalancesWith(c, 0)

\* C38, with the interest: the same, but a delta in SBD also pays the
\* account the interest that is due on its SBD balance, which is added to
\* the balance, to the SBD supply and, at the median price, to the virtual
\* supply; the STEEM supply is left alone.
C38_BalanceChangesByDeltaAndInterest ==
    /\ econ.kind = "balances" => NoBalanceNegative
    /\ BalanceAdjusted =>
          LET c == econ.call
          IN  /\ FailsWhenOverdrawn(c)
              /\ ZeroChangesNothing(c)
              /\ (~Overdrawn(c) /\ c.delta.amount # 0) =>
                    /\ c.thrown = "none"
                    /\ c.after.balance = BalancesWith(c, InterestOf(c))
                    /\ c.after.current_sbd_supply
                         = c.before.current_sbd_supply + InterestOf(c)
                    /\ c.after.virtual_supply
                         = c.before.virtual_supply
                             + SbdToSteem(InterestOf(c), c.before.median)
                    /\ c.after.current_supply = c.before.current_supply

\* alice's SBD balance was raised by 2 and by 1 of interest
C38_Witness ==
    /\ BalanceAdjusted
    /\ last.op = "adjust_balance"
    /\ econ.call.thrown = "none"
    /\ econ.call.account = Author
    /\ econ.call.delta = Asset(MaxBalanceDelta, "SBD")
    /\ InterestOf(econ.call) = 1
    /\ econ.balance[Author]["SBD"]
         = econ.call.before.balance[Author]["SBD"] + MaxBalanceDelta + 1

====
